---- MODULE Spec2Model ----
(***************************************************************************)
(* Model of the watchd backend: one room, its membership rows, the swipe   *)
(* ledger, the matches table and the request handlers that act on them.    *)
(* Every handler is an async function; between two awaited queries other   *)
(* requests may run, so each action below is one query executed by the     *)
(* database together with the synchronous code that follows it up to the   *)
(* point where the next query is issued.                                   *)
(***************************************************************************)
EXTENDS Integers, FiniteSets, Sequences, TLC

\* ---------------------------------------------------------------- bounds
NumMovies == 1
MaxInflight == 2
MaxRequests == 5
NumStackIds == 2
PageSize == 2
MaxPage == 3
MaxOverflow == 2
NumKeys == 2
MaxCalls == 2
MaxTime == 3
CacheTtl == 2
NumSockets == 1
NumRoomIds == 2

\* for (let page = 1; page <= 5; page++)
StackPages == 5

\* const pageSize = 20
FeedPageSize == 20

Users == {"A", "B", "C"}
Movies == 1..NumMovies
Reqs == 1..MaxInflight
Directions == {"left", "right"}
StackIds == 1..NumStackIds
Pages == 1..MaxPage
CacheKeys == 1..NumKeys
CallSlots == 1..MaxCalls
Sockets == 1..NumSockets
RoomIds == 1..NumRoomIds

VARIABLES
    room,         \* the rooms row: exists, status, and last_activity_at as the
                  \* slot of the request whose NOW() was written last
    members,      \* room_members rows of the room: user -> none/active/inactive
    swipes,       \* swipes rows of the room: set of [user, movie, dir]
    matches,      \* matches rows of the room: set of [id, movie, watched]
    nextMatchId,  \* AUTO_INCREMENT of matches.id
    matchEvents,  \* number of `match` events emitted to room:<roomId>, per movie
    req,          \* per slot: the handler in flight (its inputs, its position pc,
                  \* its locals) or the answer just sent, with history fields:
                  \* inserted, eligible, conflict, emitted, prevDir, alone,
                  \* matchesBefore
    started,      \* number of requests received so far
    soloLiked,    \* movies a right swipe was answered for while one member row existed
    lastDir,      \* direction of the most recently recorded swipe per (user, movie)
    stack,        \* room_stack rows of the room: set of [movie, pos, build], build
                  \* being the slot of the generateRoomStack call that inserted the row
    cleared,      \* users whose membership row has deleted_from_archive_at set
    tmdbKey,      \* process.env.TMDB_API_KEY holds a value
    served,       \* the movie ids of the feed page answered last, per user and page
    cache,        \* justwatch.ts: Map movieId -> [offers, expiresAt], or NoEntry
    clock,        \* Date.now(), in units of which CACHE_TTL_MS is CacheTtl
    call,         \* per slot: the getStreamingOffers call in flight, or its result
    sockets,      \* per connection: open or not, the channels room:<id> it is
                  \* subscribed to, and the join message handled last with the
                  \* event it was answered with
    lastFail      \* per movie: the latest time at which the window of a failed
                  \* lookup that has returned ends, 0 when no lookup has failed
                  \* (any), and the same for the failed lookups that returned
                  \* while no other call for the movie was in flight (clean)

\* the availability cache and its callers. The route handlers above the
\* cache do not show offers in their modelled answers and leave these
\* variables as they are; getStreamingOffers is specified on its own
cacheVars == <<cache, clock, call, lastFail>>

\* the state outside the database
envVars == <<tmdbKey, served, cache, clock, call, lastFail, sockets>>

vars == <<room, members, swipes, matches, nextMatchId, matchEvents, req,
          started, soloLiked, lastDir, stack, cleared, tmdbKey, served,
          cache, clock, call, lastFail, sockets>>

\* no page answered yet
NotServed == <<>>

\* cache.get(movieId) is undefined
NoEntry == [offers |-> "none", expiresAt |-> 0]

\* no getStreamingOffers call in the slot
IdleCall ==
    [pc |-> "idle", movie |-> 1, start |-> 0, result |-> "none", upstream |-> 0,
     failed |-> FALSE, afterFail |-> FALSE, afterClean |-> FALSE]

\* const cache = new Map(): empty when the module is loaded
CacheInit ==
    /\ cache = [m \in CacheKeys |-> NoEntry]
    /\ clock = 0
    /\ call = [c \in CallSlots |-> IdleCall]
    /\ lastFail = [m \in CacheKeys |-> [any |-> 0, clean |-> 0]]

\* a connection that is not established, or was closed
ClosedSocket ==
    [open |-> FALSE, subs |-> {}, event |-> "none", token |-> "none", roomId |-> 0,
     member |-> FALSE]

\* no client is connected when the server starts
SocketInit == sockets = [s \in Sockets |-> ClosedSocket]

\* the process as the deployment starts it: provider key set
EnvInit ==
    /\ tmdbKey = TRUE
    /\ served = [u \in Users |-> [p \in Pages |-> NotServed]]
    /\ CacheInit
    /\ SocketInit

\* ---------------------------------------------------------- table helpers
\* every user passes the membership check
IsMemberAny(u) == TRUE

\* SELECT user_id FROM room_members WHERE room_id = ? AND user_id = ?;
\* membership.length > 0
IsMember(u) == members[u] # "none"

MemberRows == {u \in Users : members[u] # "none"}

ActiveRows == {u \in Users : members[u] = "active"}

RightSwipers(sw, m) == {row.user : row \in {x \in sw : x.movie = m /\ x.dir = "right"}}

SwipeRowsOf(sw, u, m) == {row \in sw : row.user = u /\ row.movie = m}

MatchRowsOf(ms, m) == {row \in ms : row.movie = m}

\* INSERT ... without ON DUPLICATE KEY UPDATE: a second row for the same key
UpsertSwipeAppend(sw, u, m, d) == sw \cup {[user |-> u, movie |-> m, dir |-> d]}

\* INSERT INTO swipes ... ON DUPLICATE KEY UPDATE direction = VALUES(direction)
UpsertSwipe(sw, u, m, d) ==
    {row \in sw : ~(row.user = u /\ row.movie = m)}
        \cup {[user |-> u, movie |-> m, dir |-> d]}

\* no unique key on (room_id, movie_id)
MatchConflictNever(ms, m) == FALSE

\* UNIQUE KEY unique_room_movie (room_id, movie_id): the insert is rejected
MatchConflict(ms, m) == \E row \in ms : row.movie = m

\* the direction of u's swipe row for m, "none" without a row
DirOf(sw, u, m) ==
    IF SwipeRowsOf(sw, u, m) = {} THEN "none"
    ELSE (CHOOSE row \in SwipeRowsOf(sw, u, m) : TRUE).dir

\* SELECT ... FROM room_members WHERE room_id = ? AND is_active = true
DetectorMembersActive == ActiveRows

\* checkAndCreateMatch: SELECT user_id FROM room_members WHERE room_id = ?
DetectorMembers == MemberRows

\* if (swipes.length <= memberCount) return { isMatch: false }
NotEligibleOffByOne(memberCount, rightCount) ==
    memberCount < 2 \/ rightCount <= memberCount

\* the earlier policy: a solo room matches on its single member's right swipe
NotEligibleSolo(memberCount, rightCount) == rightCount < memberCount

\* if (memberCount < 2 || swipes.length < memberCount) return { isMatch: false }
NotEligible(memberCount, rightCount) ==
    memberCount < 2 \/ rightCount < memberCount

\* the existing-match guard left out
MatchExistsNever(ms, m) == FALSE

\* existing.length > 0 for SELECT id FROM matches WHERE room_id = ? AND movie_id = ?
MatchExists(ms, m) == MatchRowsOf(ms, m) # {}

\* M >= 2 and every user with a membership row holds a right swipe for m
Eligible(m) ==
    /\ Cardinality(MemberRows) >= 2
    /\ MemberRows \subseteq RightSwipers(swipes, m)

\* DELETE FROM rooms WHERE id = ?: ON DELETE CASCADE empties the room's tables
NoMembers == [u \in Users |-> "none"]

\* ------------------------------------------------------------- requests
IdleReq ==
    [kind |-> "none", user |-> "A", movie |-> 1, dir |-> "left", pc |-> "idle",
     memberCount |-> 0, count |-> 0, status |-> 0, match |-> FALSE,
     inserted |-> FALSE, eligible |-> FALSE, emitted |-> FALSE, enriched |-> FALSE,
     conflict |-> FALSE, prevDir |-> "none", lastMember |-> FALSE,
     alone |-> TRUE, matchesBefore |-> {},
     ids |-> <<>>, page |-> 0, failKind |-> "none", seen |-> {}, swiped |-> {},
     hadRows |-> FALSE, wasCleared |-> FALSE, othersLeft |-> FALSE,
     stackEmpty |-> "absent", joined |-> FALSE, rejoined |-> FALSE]

InFlight(r) == req[r].pc \notin {"idle", "done"}

\* a new request takes the lowest slot that holds no handler in flight
FreeSlot(r) ==
    /\ ~InFlight(r)
    /\ \A s \in Reqs : s < r => InFlight(s)

\* requests that can add rows or raise a counter are received MaxRequests times
Free(r) ==
    /\ FreeSlot(r)
    /\ started < MaxRequests

\* a request arrives in slot r: the bookkeeping shared by every handler
Arrive(r, rec) ==
    [s \in Reqs |->
        IF s = r
        THEN [rec EXCEPT !.alone = \A t \in Reqs \ {r} : ~InFlight(t),
                         !.matchesBefore = matches]
        ELSE IF InFlight(s) THEN [req[s] EXCEPT !.alone = FALSE] ELSE IdleReq]

\* an answer is kept for one step: req[r].pc = "done" holds exactly in the
\* state the answer of r was sent in
Swept == [s \in Reqs |-> IF req[s].pc = "done" THEN IdleReq ELSE req[s]]

Init ==
    /\ room = [exists |-> TRUE, status |-> "waiting", lastActivity |-> 0]
    /\ members = [u \in Users |-> IF u = "A" THEN "active" ELSE "none"]
    /\ swipes = {}
    /\ matches = {}
    /\ nextMatchId = 1
    /\ matchEvents = [m \in Movies |-> 0]
    /\ req = [r \in Reqs |-> IdleReq]
    /\ started = 0
    /\ soloLiked = {}
    /\ lastDir = [u \in Users |-> [m \in Movies |-> "none"]]
    /\ stack = {}
    /\ cleared = {}
    /\ EnvInit

\* the handler answers: res.status(code).json(...)
Respond(r, rec, code) ==
    req' = [Swept EXCEPT ![r] = [rec EXCEPT !.pc = "done", !.status = code]]

\* the handler awaits its next query
Continue(r, rec, next) ==
    req' = [Swept EXCEPT ![r] = [rec EXCEPT !.pc = next]]

\* ------------------------------------------------- POST /api/swipes
\* the request arrives and the membership SELECT runs; no row: 403. The body
\* names one of the movies ms; limit requests are received at most.
SwipeArrive(r, ms, limit) ==
    /\ FreeSlot(r)
    /\ started < limit
    /\ \E u \in Users, m \in ms, d \in Directions :
        LET rec == [IdleReq EXCEPT !.kind = "swipe", !.user = u, !.movie = m, !.dir = d]
        IN IF ~IsMember(u)
           THEN req' = Arrive(r, [rec EXCEPT !.pc = "done", !.status = 403])
           ELSE req' = Arrive(r, [rec EXCEPT !.pc = "upsert"])
    /\ started' = started + 1
    /\ UNCHANGED <<room, members, swipes, matches, nextMatchId, matchEvents,
                   soloLiked, lastDir>>
    /\ UNCHANGED <<stack, cleared>>
    /\ UNCHANGED envVars

SwipeMembership(r) == SwipeArrive(r, Movies, MaxRequests)

\* INSERT INTO swipes ... ON DUPLICATE KEY UPDATE; the foreign key on room_id
\* rejects the row when the room is gone and the handler answers 500
SwipeUpsert(r) ==
    /\ req[r].pc = "upsert"
    /\ IF room.exists
       THEN /\ swipes' = UpsertSwipe(swipes, req[r].user, req[r].movie, req[r].dir)
            /\ lastDir' = IF req[r].movie \in Movies
                          THEN [lastDir EXCEPT ![req[r].user][req[r].movie] = req[r].dir]
                          ELSE lastDir
            /\ Continue(r, [req[r] EXCEPT
                               !.prevDir = DirOf(swipes, req[r].user, req[r].movie)],
                        "touch")
       ELSE /\ Respond(r, req[r], 500)
            /\ UNCHANGED <<swipes, lastDir>>
    /\ UNCHANGED <<room, members, matches, nextMatchId, matchEvents, started, soloLiked>>
    /\ UNCHANGED <<stack, cleared>>
    /\ UNCHANGED envVars

\* match detection runs for every swipe
RunsDetectionAlways(dir) == TRUE

\* if (direction === 'right')
RunsDetection(dir) == dir = "right"

\* UPDATE rooms SET last_activity_at = NOW(); a left swipe is answered here
SwipeTouch(r) ==
    /\ req[r].pc = "touch"
    /\ room' = IF room.exists
               THEN [room EXCEPT !.lastActivity = r]
               ELSE room
    /\ IF RunsDetection(req[r].dir)
       THEN Continue(r, req[r], "members")
       ELSE Respond(r, req[r], 201)
    /\ UNCHANGED <<members, swipes, matches, nextMatchId, matchEvents, started,
                   soloLiked, lastDir>>
    /\ UNCHANGED <<stack, cleared>>
    /\ UNCHANGED envVars

\* checkAndCreateMatch: SELECT user_id FROM room_members WHERE room_id = ?
CheckMembers(r) ==
    /\ req[r].pc = "members"
    /\ Continue(r, [req[r] EXCEPT !.memberCount = Cardinality(DetectorMembers)], "swipes")
    /\ UNCHANGED <<room, members, swipes, matches, nextMatchId, matchEvents, started,
                   soloLiked, lastDir>>
    /\ UNCHANGED <<stack, cleared>>
    /\ UNCHANGED envVars

\* checkAndCreateMatch: SELECT ... FROM swipes WHERE direction = 'right', then
\* if (memberCount < 2 || swipes.length < memberCount) return { isMatch: false }
CheckSwipes(r) ==
    /\ req[r].pc = "swipes"
    /\ LET rows == {x \in swipes : x.movie = req[r].movie /\ x.dir = "right"}
       IN IF NotEligible(req[r].memberCount, Cardinality(rows))
          THEN /\ Respond(r, req[r], 201)
               /\ soloLiked' = IF req[r].memberCount = 1
                               THEN soloLiked \cup {req[r].movie}
                               ELSE soloLiked
          ELSE /\ Continue(r, req[r], "existing")
               /\ UNCHANGED soloLiked
    /\ UNCHANGED <<room, members, swipes, matches, nextMatchId, matchEvents, started,
                   lastDir>>
    /\ UNCHANGED <<stack, cleared>>
    /\ UNCHANGED envVars

\* checkAndCreateMatch: SELECT id FROM matches WHERE room_id = ? AND movie_id = ?
CheckExisting(r) ==
    /\ req[r].pc = "existing"
    /\ IF MatchExists(matches, req[r].movie)
       THEN Respond(r, req[r], 201)
       ELSE Continue(r, req[r], "insert")
    /\ UNCHANGED <<room, members, swipes, matches, nextMatchId, matchEvents, started,
                   soloLiked, lastDir>>
    /\ UNCHANGED <<stack, cleared>>
    /\ UNCHANGED envVars

\* checkAndCreateMatch: INSERT INTO matches; a rejected insert throws, and the
\* route's catch block answers 500
InsertMatch(r) ==
    /\ req[r].pc = "insert"
    /\ IF room.exists /\ ~MatchConflict(matches, req[r].movie)
       THEN /\ matches' = matches \cup
                   {[id |-> nextMatchId, movie |-> req[r].movie, watched |-> FALSE]}
            /\ nextMatchId' = nextMatchId + 1
            /\ Continue(r, [req[r] EXCEPT !.inserted = TRUE,
                                          !.eligible = Eligible(req[r].movie)], "enrich")
       ELSE /\ Respond(r, [req[r] EXCEPT
                              !.conflict = MatchConflict(matches, req[r].movie)], 500)
            /\ UNCHANGED <<matches, nextMatchId>>
    /\ UNCHANGED <<room, members, swipes, matchEvents, started, soloLiked, lastDir>>
    /\ UNCHANGED <<stack, cleared>>
    /\ UNCHANGED envVars

\* a failed lookup leaves checkAndCreateMatch as an exception
LookupUncaught(ok) == ok

\* try { getMovieById; getStreamingOffers } catch (err) { logger.warn }: the
\* call goes on whether the lookups succeeded (ok) or not
LookupCaught(ok) == TRUE

\* checkAndCreateMatch: getMovieById and getStreamingOffers inside try/catch,
\* return { isMatch: true }; the route emits `match` and answers 201
EnrichAndEmit(r) ==
    /\ req[r].pc = "enrich"
    /\ \E ok \in BOOLEAN :
        IF LookupCaught(ok)
        THEN /\ Respond(r, [req[r] EXCEPT !.enriched = ok, !.match = TRUE,
                                          !.emitted = TRUE], 201)
             /\ matchEvents' = [matchEvents EXCEPT ![req[r].movie] = @ + 1]
        ELSE /\ Respond(r, [req[r] EXCEPT !.failKind = "lookup"], 500)
             /\ UNCHANGED matchEvents
    /\ UNCHANGED <<room, members, swipes, matches, nextMatchId, started, soloLiked,
                   lastDir>>
    /\ UNCHANGED <<stack, cleared>>
    /\ UNCHANGED envVars

Swipe(r) ==
    \/ SwipeMembership(r)
    \/ SwipeUpsert(r)
    \/ SwipeTouch(r)
    \/ CheckMembers(r)
    \/ CheckSwipes(r)
    \/ CheckExisting(r)
    \/ InsertMatch(r)
    \/ EnrichAndEmit(r)

\* ------------------------------------------------- POST /api/rooms/join
\* the request arrives and the room is looked up by code: 404, 410 or go on
JoinFindRoom(r) ==
    /\ Free(r)
    /\ \E u \in Users :
        LET rec == [IdleReq EXCEPT !.kind = "join", !.user = u]
        IN IF ~room.exists
           THEN req' = Arrive(r, [rec EXCEPT !.pc = "done", !.status = 404])
           ELSE IF room.status = "dissolved"
           THEN req' = Arrive(r, [rec EXCEPT !.pc = "done", !.status = 410])
           ELSE req' = Arrive(r, [rec EXCEPT !.pc = "jMembership"])
    /\ started' = started + 1
    /\ UNCHANGED <<room, members, swipes, matches, nextMatchId, matchEvents,
                   soloLiked, lastDir>>
    /\ UNCHANGED <<stack, cleared>>
    /\ UNCHANGED envVars

\* SELECT user_id, is_active FROM room_members WHERE room_id = ? AND user_id = ?
JoinMembership(r) ==
    /\ req[r].pc = "jMembership"
    /\ IF members[req[r].user] = "inactive"
       THEN Continue(r, req[r], "jReactivate")
       ELSE IF members[req[r].user] = "active"
       THEN Respond(r, req[r], 200)
       ELSE Continue(r, req[r], "jCount")
    /\ UNCHANGED <<room, members, swipes, matches, nextMatchId, matchEvents, started,
                   soloLiked, lastDir>>
    /\ UNCHANGED <<stack, cleared>>
    /\ UNCHANGED envVars

\* UPDATE room_members SET is_active = true WHERE room_id = ? AND user_id = ?
JoinReactivate(r) ==
    /\ req[r].pc = "jReactivate"
    /\ members' = IF members[req[r].user] # "none"
                  THEN [members EXCEPT ![req[r].user] = "active"]
                  ELSE members
    /\ Continue(r, [req[r] EXCEPT !.rejoined = TRUE], "jSetActive")
    /\ UNCHANGED <<room, swipes, matches, nextMatchId, matchEvents, started,
                   soloLiked, lastDir>>
    /\ UNCHANGED <<stack, cleared>>
    /\ UNCHANGED envVars

\* the room stays waiting after a rejoin
RejoinStatusWaiting == "waiting"

\* UPDATE rooms SET status = ? ...', ['active', room.id]
RejoinStatus == "active"

\* UPDATE rooms SET status = 'active', last_activity_at = NOW(); emit
\* PARTNER_JOINED; answer 200
JoinSetActive(r) ==
    /\ req[r].pc = "jSetActive"
    /\ room' = IF room.exists
               THEN [room EXCEPT !.status = RejoinStatus,
                                 !.lastActivity = r]
               ELSE room
    /\ Respond(r, [req[r] EXCEPT !.joined = TRUE], 200)
    /\ UNCHANGED <<members, swipes, matches, nextMatchId, matchEvents, started,
                   soloLiked, lastDir>>
    /\ UNCHANGED <<stack, cleared>>
    /\ UNCHANGED envVars

\* only active memberships are counted
JoinCountActiveRows == Cardinality(ActiveRows)

\* SELECT COUNT(*) AS count FROM room_members WHERE room_id = ?
JoinCountRows == Cardinality(MemberRows)

\* SELECT COUNT(*) FROM room_members WHERE room_id = ?; count >= 2: 409
JoinCount(r) ==
    /\ req[r].pc = "jCount"
    /\ LET n == JoinCountRows
       IN IF n >= 2
          THEN Respond(r, [req[r] EXCEPT !.count = n], 409)
          ELSE Continue(r, [req[r] EXCEPT !.count = n], "jInsert")
    /\ UNCHANGED <<room, members, swipes, matches, nextMatchId, matchEvents, started,
                   soloLiked, lastDir>>
    /\ UNCHANGED <<stack, cleared>>
    /\ UNCHANGED envVars

\* INSERT INTO room_members; rejected by unique_room_user or by the foreign
\* key on room_id, and then the catch block answers 500
JoinInsert(r) ==
    /\ req[r].pc = "jInsert"
    /\ IF room.exists /\ members[req[r].user] = "none"
       THEN /\ members' = [members EXCEPT ![req[r].user] = "active"]
            /\ Continue(r, req[r], "jStatus")
       ELSE /\ Respond(r, req[r], 500)
            /\ UNCHANGED members
    /\ UNCHANGED <<room, swipes, matches, nextMatchId, matchEvents, started,
                   soloLiked, lastDir>>
    /\ UNCHANGED <<stack, cleared>>
    /\ UNCHANGED envVars

\* the room stays waiting after the second member's insert
JoinNewStatusWaiting(count) == "waiting"

\* const newStatus = count === 1 ? 'active' : 'waiting'
JoinNewStatus(count) == IF count = 1 THEN "active" ELSE "waiting"

\* UPDATE rooms SET status = newStatus, last_activity_at = NOW(); emit
\* PARTNER_JOINED; answer 200
JoinStatus(r) ==
    /\ req[r].pc = "jStatus"
    /\ room' = IF room.exists
               THEN [room EXCEPT !.status = JoinNewStatus(req[r].count),
                                 !.lastActivity = r]
               ELSE room
    /\ Respond(r, [req[r] EXCEPT !.joined = TRUE], 200)
    /\ UNCHANGED <<members, swipes, matches, nextMatchId, matchEvents, started,
                   soloLiked, lastDir>>
    /\ UNCHANGED <<stack, cleared>>
    /\ UNCHANGED envVars

Join(r) ==
    \/ JoinFindRoom(r)
    \/ JoinMembership(r)
    \/ JoinReactivate(r)
    \/ JoinSetActive(r)
    \/ JoinCount(r)
    \/ JoinInsert(r)
    \/ JoinStatus(r)

\* ------------------------------------------------- DELETE /api/rooms/:id/leave
\* the request arrives and the membership SELECT runs; no row: 404
LeaveMembership(r) ==
    /\ Free(r)
    /\ \E u \in Users :
        LET rec == [IdleReq EXCEPT !.kind = "leave", !.user = u]
        IN IF members[u] = "none"
           THEN req' = Arrive(r, [rec EXCEPT !.pc = "done", !.status = 404])
           ELSE req' = Arrive(r, [rec EXCEPT !.pc = "lDeactivate"])
    /\ started' = started + 1
    /\ UNCHANGED <<room, members, swipes, matches, nextMatchId, matchEvents,
                   soloLiked, lastDir>>
    /\ UNCHANGED <<stack, cleared>>
    /\ UNCHANGED envVars

\* UPDATE room_members SET is_active = false WHERE room_id = ? AND user_id = ?
LeaveDeactivate(r) ==
    /\ req[r].pc = "lDeactivate"
    /\ members' = IF members[req[r].user] # "none"
                  THEN [members EXCEPT ![req[r].user] = "inactive"]
                  ELSE members
    /\ Continue(r, req[r], "lCountActive")
    /\ UNCHANGED <<room, swipes, matches, nextMatchId, matchEvents, started,
                   soloLiked, lastDir>>
    /\ UNCHANGED <<stack, cleared>>
    /\ UNCHANGED envVars

\* SELECT COUNT(*) ... WHERE is_active = true; lastMember = count === 0
LeaveCountActive(r) ==
    /\ req[r].pc = "lCountActive"
    /\ IF Cardinality(ActiveRows) = 0
       THEN Continue(r, [req[r] EXCEPT !.lastMember = TRUE], "lCountAll")
       ELSE Continue(r, req[r], "lSetWaiting")
    /\ UNCHANGED <<room, members, swipes, matches, nextMatchId, matchEvents, started,
                   soloLiked, lastDir>>
    /\ UNCHANGED <<stack, cleared>>
    /\ UNCHANGED envVars

\* SELECT COUNT(*) ... WHERE room_id = ?; wasNeverUsed = totalMembersEver === 1
LeaveCountAll(r) ==
    /\ req[r].pc = "lCountAll"
    /\ IF Cardinality(MemberRows) = 1
       THEN Continue(r, req[r], "lDelete")
       ELSE Continue(r, req[r], "lDissolve")
    /\ UNCHANGED <<room, members, swipes, matches, nextMatchId, matchEvents, started,
                   soloLiked, lastDir>>
    /\ UNCHANGED <<stack, cleared>>
    /\ UNCHANGED envVars

\* DELETE FROM rooms WHERE id = ?, cascading to members, swipes and matches;
\* the answer keeps, as history, how many membership rows the cascade removed
LeaveDelete(r) ==
    /\ req[r].pc = "lDelete"
    /\ room' = [room EXCEPT !.exists = FALSE]
    /\ members' = NoMembers
    /\ swipes' = {}
    /\ matches' = {}
    /\ Respond(r, [req[r] EXCEPT !.memberCount = Cardinality(MemberRows)], 200)
    /\ UNCHANGED <<nextMatchId, matchEvents, started, soloLiked, lastDir>>
    /\ stack' = {}
    /\ cleared' = {}
    /\ UNCHANGED envVars

\* UPDATE rooms SET status = 'dissolved', last_activity_at = NOW()
LeaveDissolve(r) ==
    /\ req[r].pc = "lDissolve"
    /\ room' = IF room.exists
               THEN [room EXCEPT !.status = "dissolved",
                                 !.lastActivity = r]
               ELSE room
    /\ Respond(r, req[r], 200)
    /\ UNCHANGED <<members, swipes, matches, nextMatchId, matchEvents, started,
                   soloLiked, lastDir>>
    /\ UNCHANGED <<stack, cleared>>
    /\ UNCHANGED envVars

\* UPDATE rooms SET status = 'waiting', last_activity_at = NOW()
LeaveSetWaiting(r) ==
    /\ req[r].pc = "lSetWaiting"
    /\ room' = IF room.exists
               THEN [room EXCEPT !.status = "waiting",
                                 !.lastActivity = r]
               ELSE room
    /\ Respond(r, req[r], 200)
    /\ UNCHANGED <<members, swipes, matches, nextMatchId, matchEvents, started,
                   soloLiked, lastDir>>
    /\ UNCHANGED <<stack, cleared>>
    /\ UNCHANGED envVars

Leave(r) ==
    \/ LeaveMembership(r)
    \/ LeaveDeactivate(r)
    \/ LeaveCountActive(r)
    \/ LeaveCountAll(r)
    \/ LeaveDelete(r)
    \/ LeaveDissolve(r)
    \/ LeaveSetWaiting(r)

\* ------------------------------------------------- generateRoomStack
\* what one discover page can answer: a list of at most PageSize movie ids
PageAnswers == UNION {[1..n -> StackIds] : n \in 0..PageSize}

\* how fetching one page can end: a 2xx answer with a parsable body, a non-2xx
\* answer, a rejected fetch (network error), a body that response.json() or
\* data.results.map cannot process
FetchOutcomes == {"ok", "status", "reject", "body"}

\* movieIds.map((movieId, index) => [roomId, movieId, index])
StackRows(ids, b) ==
    {[movie |-> ids[i], pos |-> i - 1, build |-> b] : i \in 1..Len(ids)}

\* the rows as a reader sees them: movie_id and position
Visible(st) == {[movie |-> row.movie, pos |-> row.pos] : row \in st}

\* the build keeps the rows that are there
DeleteStackKeep(st) == st

\* DELETE FROM room_stack WHERE room_id = ?
DeleteStack(st) == {}

\* the key check passes although no key is set
KeyMissingIgnored(key) == FALSE

\* if (!tmdbApiKey) throw new Error('TMDB_API_KEY not configured')
KeyMissing(key) == ~key

\* where the caller goes on when generateRoomStack has returned
AfterStack(kind) == IF kind = "create" THEN "cSelect" ELSE "fSelect"

\* the DELETE that opens a build, then the key check: without a key the error
\* is thrown, rethrown by the catch block and answered 500 by the route; with
\* a key the page loop starts with page = 1. hadRows keeps, as history,
\* whether the DELETE found rows.
StackDelete(r) ==
    /\ req[r].pc = "gDelete"
    /\ stack' = DeleteStack(stack)
    /\ IF KeyMissing(tmdbKey)
       THEN Respond(r, [req[r] EXCEPT !.failKind = "config", !.hadRows = stack # {}], 500)
       ELSE Continue(r, [req[r] EXCEPT !.ids = <<>>, !.page = 1, !.hadRows = stack # {}],
                     "gFetch")
    /\ UNCHANGED <<room, members, swipes, matches, nextMatchId, matchEvents, started,
                   soloLiked, lastDir, cleared>>
    /\ UNCHANGED envVars

\* one turn of the loop: await fetch(url), response.ok, await response.json(),
\* movieIds.push(...). A non-2xx answer breaks out of the loop; a rejected fetch
\* or an unusable body throws, generateRoomStack rethrows and the route's catch
\* block answers 500. After the loop an empty movieIds returns without INSERT.
StackFetchFrom(r, answers) ==
    /\ req[r].pc = "gFetch"
    /\ \E outcome \in FetchOutcomes, answer \in answers :
        LET got  == IF outcome = "ok" THEN req[r].ids \o answer ELSE req[r].ids
            over == outcome = "status" \/ req[r].page = StackPages
            rec  == [req[r] EXCEPT !.ids = got, !.failKind = IF outcome = "ok" THEN "none" ELSE outcome]
        IN IF outcome \in {"reject", "body"}
           THEN Respond(r, rec, 500)
           ELSE IF ~over
           THEN Continue(r, [rec EXCEPT !.page = req[r].page + 1], "gFetch")
           ELSE IF got = <<>>
           THEN Continue(r, rec, AfterStack(req[r].kind))
           ELSE Continue(r, rec, "gInsert")
    /\ UNCHANGED <<room, members, swipes, matches, nextMatchId, matchEvents, started,
                   soloLiked, lastDir, stack, cleared>>
    /\ UNCHANGED envVars

\* INSERT INTO room_stack (room_id, movie_id, position) VALUES ?; rejected by
\* the foreign key on room_id when the room is gone, and then the route answers
\* 500. On success FILTERS_UPDATED is emitted and the room SELECT is issued.
StackInsert(r) ==
    /\ req[r].pc = "gInsert"
    /\ IF room.exists
       THEN /\ stack' = stack \cup StackRows(req[r].ids, r)
            /\ Continue(r, [req[r] EXCEPT !.inserted = TRUE], AfterStack(req[r].kind))
       ELSE /\ Respond(r, req[r], 500)
            /\ UNCHANGED stack
    /\ UNCHANGED <<room, members, swipes, matches, nextMatchId, matchEvents, started,
                   soloLiked, lastDir, cleared>>
    /\ UNCHANGED envVars

\* ------------------------------------------------- PATCH /api/rooms/:id/filters
\* the request arrives and the membership SELECT runs; no row: 403
FiltersMembership(r) ==
    /\ FreeSlot(r)
    /\ \E u \in Users :
        LET rec == [IdleReq EXCEPT !.kind = "filters", !.user = u]
        IN IF members[u] = "none"
           THEN req' = Arrive(r, [rec EXCEPT !.pc = "done", !.status = 403])
           ELSE req' = Arrive(r, [rec EXCEPT !.pc = "fUpdate"])
    /\ UNCHANGED <<room, members, swipes, matches, nextMatchId, matchEvents, started,
                   soloLiked, lastDir, stack, cleared>>
    /\ UNCHANGED envVars

\* UPDATE rooms SET filters = ?, last_activity_at = NOW(); then generateRoomStack
FiltersUpdate(r) ==
    /\ req[r].pc = "fUpdate"
    /\ room' = IF room.exists THEN [room EXCEPT !.lastActivity = r] ELSE room
    /\ Continue(r, req[r], "gDelete")
    /\ UNCHANGED <<members, swipes, matches, nextMatchId, matchEvents, started,
                   soloLiked, lastDir, stack, cleared>>
    /\ UNCHANGED envVars

\* SELECT ... FROM rooms WHERE id = ?; res.json({ room: rooms[0] })
FiltersSelect(r) ==
    /\ req[r].pc = "fSelect"
    /\ Respond(r, req[r], 200)
    /\ UNCHANGED <<room, members, swipes, matches, nextMatchId, matchEvents, started,
                   soloLiked, lastDir, stack, cleared>>
    /\ UNCHANGED envVars

\* the handler with a provider whose pages answer with a list from `answers`
UpdateFiltersWith(r, answers) ==
    \/ FiltersMembership(r)
    \/ FiltersUpdate(r)
    \/ StackDelete(r)
    \/ StackFetchFrom(r, answers)
    \/ StackInsert(r)
    \/ FiltersSelect(r)

UpdateFilters(r) == UpdateFiltersWith(r, PageAnswers)

\* ------------------------------------------------- GET /api/movies/feed
\* descending positions
RowBeforeDesc(x, y, tie) ==
    \/ x.pos > y.pos
    \/ x.pos = y.pos /\ (IF tie THEN x.build < y.build ELSE x.build > y.build)

\* ORDER BY position ASC: rows with equal position come in an order the
\* database chooses; tie decides between the two builds such rows belong to
RowBefore(x, y, tie) ==
    \/ x.pos < y.pos
    \/ x.pos = y.pos /\ (IF tie THEN x.build < y.build ELSE x.build > y.build)

RECURSIVE OrderedRows(_, _)
OrderedRows(rows, tie) ==
    IF rows = {} THEN <<>>
    ELSE LET first == CHOOSE x \in rows : \A y \in rows \ {x} : RowBefore(x, y, tie)
         IN <<first>> \o OrderedRows(rows \ {first}, tie)

\* the movie ids of a sequence of rows
MovieIds(rowSeq) == [i \in 1..Len(rowSeq) |-> rowSeq[i].movie]

\* every row is kept, swiped or not
UnseenAll(rowSeq, swiped) == rowSeq

\* stackRows.filter((row) => !swipedIds.has(row.movie_id))
Unseen(rowSeq, swiped) ==
    LET NotSwiped(row) == row.movie \notin swiped
    IN SelectSeq(rowSeq, NotSwiped)

\* the slice starts one element late
FeedSliceShifted(seq, p) ==
    SubSeq(seq, (p - 1) * FeedPageSize + 2,
           IF p * FeedPageSize + 1 < Len(seq) THEN p * FeedPageSize + 1 ELSE Len(seq))

\* unseenMovies.slice(startIndex, startIndex + pageSize), startIndex = (page - 1) * pageSize
FeedSlice(seq, p) ==
    SubSeq(seq, (p - 1) * FeedPageSize + 1,
           IF p * FeedPageSize < Len(seq) THEN p * FeedPageSize ELSE Len(seq))

\* what the feed has answered last for a page of a user
Recorded(rec) == [served EXCEPT ![rec.user][rec.page] = rec.ids]

\* SELECT movie_id FROM swipes WHERE user_id = ? AND room_id = ?
SwipedBy(u) == {row.movie : row \in {x \in swipes : x.user = u}}

\* the request arrives and the membership SELECT runs; no row: 403
FeedMembership(r) ==
    /\ FreeSlot(r)
    /\ \E u \in Users, p \in Pages :
        LET rec == [IdleReq EXCEPT !.kind = "feed", !.user = u, !.page = p]
        IN IF ~IsMember(u)
           THEN req' = Arrive(r, [rec EXCEPT !.pc = "done", !.status = 403])
           ELSE req' = Arrive(r, [rec EXCEPT !.pc = "dSwiped"])
    /\ UNCHANGED <<room, members, swipes, matches, nextMatchId, matchEvents, started,
                   soloLiked, lastDir, stack, cleared>>
    /\ UNCHANGED envVars

\* SELECT movie_id FROM swipes WHERE user_id = ? AND room_id = ?
FeedSwiped(r) ==
    /\ req[r].pc = "dSwiped"
    /\ Continue(r, [req[r] EXCEPT !.swiped = SwipedBy(req[r].user)], "dStack")
    /\ UNCHANGED <<room, members, swipes, matches, nextMatchId, matchEvents, started,
                   soloLiked, lastDir, stack, cleared>>
    /\ UNCHANGED envVars

\* SELECT movie_id, position FROM room_stack ... ORDER BY position; filter and
\* slice. An empty slice is answered { page, movies: [] } at once; otherwise
\* the lookups of the slice are started. seen keeps, as history, the rows read.
\* With log the answer is recorded in served.
FeedStack(r, log) ==
    /\ req[r].pc = "dStack"
    /\ \E tie \in BOOLEAN :
        LET slice == FeedSlice(Unseen(OrderedRows(stack, tie), req[r].swiped), req[r].page)
            rec   == [req[r] EXCEPT
                         !.seen = {row \in stack : row.movie \notin req[r].swiped},
                         !.ids = MovieIds(slice)]
        IN IF slice = <<>>
           THEN /\ Respond(r, rec, 200)
                /\ served' = IF log THEN Recorded(rec) ELSE served
           ELSE /\ Continue(r, rec, "dEnrich")
                /\ UNCHANGED served
    /\ UNCHANGED <<room, members, swipes, matches, nextMatchId, matchEvents, started,
                   soloLiked, lastDir, stack, cleared, tmdbKey, sockets>>
    /\ UNCHANGED cacheVars

\* Promise.all over the slice: getMovieById, then getStreamingOffers, per movie.
\* getStreamingOffers never throws; getMovieById throws when the provider does
\* not answer 2xx, and then Promise.all rejects and the catch block answers
\* 500. failed is the index of the first movie whose lookup fails, 0 for none.
\* With log the answered page is recorded in served.
FeedEnrich(r, log) ==
    /\ req[r].pc = "dEnrich"
    /\ \E failed \in 0..Len(req[r].ids) :
        IF failed = 0
        THEN /\ Respond(r, [req[r] EXCEPT !.enriched = TRUE], 200)
             /\ served' = IF log THEN Recorded(req[r]) ELSE served
        ELSE /\ Respond(r, [req[r] EXCEPT !.failKind = "lookup"], 500)
             /\ UNCHANGED served
    /\ UNCHANGED <<room, members, swipes, matches, nextMatchId, matchEvents, started,
                   soloLiked, lastDir, stack, cleared, tmdbKey, sockets>>
    /\ UNCHANGED cacheVars

Feed(r) ==
    \/ FeedMembership(r)
    \/ FeedSwiped(r)
    \/ FeedStack(r, FALSE)
    \/ FeedEnrich(r, FALSE)

\* the feed with every answered page recorded
FeedRecorded(r) ==
    \/ FeedMembership(r)
    \/ FeedSwiped(r)
    \/ FeedStack(r, TRUE)
    \/ FeedEnrich(r, TRUE)

\* ------------------------------------------------- GET /api/movies/rooms/:roomId/next-movie
\* the request arrives and the membership SELECT runs; no row: 403
NextMovieMembership(r) ==
    /\ FreeSlot(r)
    /\ \E u \in Users :
        LET rec == [IdleReq EXCEPT !.kind = "next", !.user = u]
        IN IF ~IsMember(u)
           THEN req' = Arrive(r, [rec EXCEPT !.pc = "done", !.status = 403])
           ELSE req' = Arrive(r, [rec EXCEPT !.pc = "nSwiped"])
    /\ UNCHANGED <<room, members, swipes, matches, nextMatchId, matchEvents, started,
                   soloLiked, lastDir, stack, cleared>>
    /\ UNCHANGED envVars

\* SELECT movie_id FROM swipes WHERE user_id = ? AND room_id = ?
NextMovieSwiped(r) ==
    /\ req[r].pc = "nSwiped"
    /\ Continue(r, [req[r] EXCEPT !.swiped = SwipedBy(req[r].user)], "nStack")
    /\ UNCHANGED <<room, members, swipes, matches, nextMatchId, matchEvents, started,
                   soloLiked, lastDir, stack, cleared>>
    /\ UNCHANGED envVars

\* the stack SELECT; stackRows.find((row) => !swipedIds.has(row.movie_id));
\* none: { movie: null, stackEmpty: true }
NextMovieStack(r) ==
    /\ req[r].pc = "nStack"
    /\ \E tie \in BOOLEAN :
        LET unseen == Unseen(OrderedRows(stack, tie), req[r].swiped)
        IN IF unseen = <<>>
           THEN Respond(r, [req[r] EXCEPT !.stackEmpty = "true"], 200)
           ELSE Continue(r, [req[r] EXCEPT !.ids = <<unseen[1].movie>>], "nEnrich")
    /\ UNCHANGED <<room, members, swipes, matches, nextMatchId, matchEvents, started,
                   soloLiked, lastDir, stack, cleared>>
    /\ UNCHANGED envVars

\* getMovieById, then getStreamingOffers; a failing getMovieById is answered
\* 500, otherwise { movie, stackEmpty: false }
NextMovieEnrich(r) ==
    /\ req[r].pc = "nEnrich"
    /\ \E failed \in BOOLEAN :
        IF failed
        THEN Respond(r, [req[r] EXCEPT !.failKind = "lookup"], 500)
        ELSE Respond(r, [req[r] EXCEPT !.enriched = TRUE, !.stackEmpty = "false"], 200)
    /\ UNCHANGED <<room, members, swipes, matches, nextMatchId, matchEvents, started,
                   soloLiked, lastDir, stack, cleared>>
    /\ UNCHANGED envVars

NextMovie(r) ==
    \/ NextMovieMembership(r)
    \/ NextMovieSwiped(r)
    \/ NextMovieStack(r)
    \/ NextMovieEnrich(r)

\* the ids 1..n in this order
Iota(n) == [i \in 1..n |-> i]

\* stack sizes around the page size: empty, one row, a full page and more
StackLens == {0, 1} \cup (FeedPageSize..(FeedPageSize + MaxOverflow))

\* the room just created, its stack built from n distinct movies
InitFeed ==
    /\ room = [exists |-> TRUE, status |-> "waiting", lastActivity |-> 0]
    /\ members = [u \in Users |-> IF u = "A" THEN "active" ELSE "none"]
    /\ swipes = {}
    /\ matches = {}
    /\ nextMatchId = 1
    /\ matchEvents = [m \in Movies |-> 0]
    /\ req = [r \in Reqs |-> IdleReq]
    /\ started = 0
    /\ soloLiked = {}
    /\ lastDir = [u \in Users |-> [m \in Movies |-> "none"]]
    /\ \E n \in StackLens : stack = StackRows(Iota(n), 1)
    /\ cleared = {}
    /\ EnvInit

\* swipes, joins, leaves and reads of the stack, one request at a time
NextFeed == Swipe(1) \/ Join(1) \/ Leave(1) \/ Feed(1) \/ NextMovie(1)

SpecFeed == InitFeed /\ [][NextFeed]_vars

\* two members in an active room, its stack built from n distinct movies
InitPages ==
    /\ room = [exists |-> TRUE, status |-> "active", lastActivity |-> 0]
    /\ members = [u \in Users |-> IF u \in {"A", "B"} THEN "active" ELSE "none"]
    /\ swipes = {}
    /\ matches = {}
    /\ nextMatchId = 1
    /\ matchEvents = [m \in Movies |-> 0]
    /\ req = [r \in Reqs |-> IdleReq]
    /\ started = 0
    /\ soloLiked = {}
    /\ lastDir = [u \in Users |-> [m \in Movies |-> "none"]]
    /\ \E n \in StackLens : stack = StackRows(Iota(n), 1)
    /\ cleared = {}
    /\ EnvInit

\* swipes and feed reads, one request at a time, the answered pages recorded
NextPages == Swipe(1) \/ FeedRecorded(1)

SpecPages == InitPages /\ [][NextPages]_vars

\* stack sizes for a walk through the pages: up to two pages and one row
WalkLens == StackLens \cup {2 * FeedPageSize + 1}

\* swipes received during a walk: at most one per movie of the largest stack
WalkRequests == 2 * FeedPageSize + 1

\* the movies the feed has served to u
ServedTo(u) == UNION {{served[u][p][i] : i \in 1..Len(served[u][p])} : p \in Pages}

\* the movies served to u that u has not swiped yet
WalkTodo(u) == ServedTo(u) \ SwipedBy(u)

\* the page u asks for next: 1, 2, 3, ... in increasing order
WalkPage(u) == 1 + Cardinality({p \in Pages : served[u][p] # <<>>})

\* two members in an active room, its stack built from n distinct movies
InitWalk ==
    /\ room = [exists |-> TRUE, status |-> "active", lastActivity |-> 0]
    /\ members = [u \in Users |-> IF u \in {"A", "B"} THEN "active" ELSE "none"]
    /\ swipes = {}
    /\ matches = {}
    /\ nextMatchId = 1
    /\ matchEvents = [m \in Movies |-> 0]
    /\ req = [r \in Reqs |-> IdleReq]
    /\ started = 0
    /\ soloLiked = {}
    /\ lastDir = [u \in Users |-> [m \in Movies |-> "none"]]
    /\ \E n \in WalkLens : stack = StackRows(Iota(n), 1)
    /\ cleared = {}
    /\ EnvInit

\* A has swiped every movie served so far and asks for the next page
WalkFeed ==
    /\ WalkTodo("A") = {}
    /\ WalkPage("A") \in Pages
    /\ FeedMembership(1)
    /\ req'[1].user = "A"
    /\ req'[1].page = WalkPage("A")

\* A swipes left on a movie of the page served last
WalkSwipe ==
    /\ WalkTodo("A") # {}
    /\ SwipeArrive(1, {CHOOSE m \in WalkTodo("A") : \A o \in WalkTodo("A") : m <= o},
                   WalkRequests)
    /\ req'[1].user = "A"
    /\ req'[1].dir = "left"

\* A walks through the pages of an unchanged stack, one request at a time
NextWalk ==
    \/ WalkFeed
    \/ FeedSwiped(1)
    \/ FeedStack(1, TRUE)
    \/ FeedEnrich(1, TRUE)
    \/ WalkSwipe
    \/ SwipeUpsert(1)
    \/ SwipeTouch(1)

SpecWalk == InitWalk /\ [][NextWalk]_vars

\* ------------------------------------------------- getStreamingOffers
CallInFlight(c) == call[c].pc \notin {"idle", "done"}

\* a new call takes the lowest slot that holds no call in flight
FreeCall(c) ==
    /\ ~CallInFlight(c)
    /\ \A d \in CallSlots : d < c => CallInFlight(d)

\* a result is kept for one step: call[c].pc = "done" holds exactly in the
\* state the call returned in
SweptCalls == [c \in CallSlots |-> IF call[c].pc = "done" THEN IdleCall ELSE call[c]]

\* the call returns
Return(c, rec) == call' = [SweptCalls EXCEPT ![c] = [rec EXCEPT !.pc = "done"]]

\* the call awaits its next upstream request
Await(c, rec, next) == call' = [SweptCalls EXCEPT ![c] = [rec EXCEPT !.pc = next]]

\* an entry is still served at its expiry time
CacheHitInclusive(entry, now) == entry # NoEntry /\ entry.expiresAt >= now

\* cached && cached.expiresAt > now
CacheHit(entry, now) == entry # NoEntry /\ entry.expiresAt > now

\* the empty list is stored already expired
NegativeEntryExpired(now) == [offers |-> "empty", expiresAt |-> now]

\* cache.set(movieId, { offers: [], expiresAt: now + CACHE_TTL_MS })
NegativeEntry(now) == [offers |-> "empty", expiresAt |-> now + CacheTtl]

\* the later of two times
Later(a, b) == IF a > b THEN a ELSE b

\* call c, started at start, returns with a failed lookup for m: the end of
\* its window is noted
FailWindow(c, m, start) ==
    [lastFail EXCEPT ![m] =
        [any   |-> Later(@.any, start + CacheTtl),
         clean |-> IF \E d \in CallSlots \ {c} : CallInFlight(d) /\ call[d].movie = m
                   THEN @.clean
                   ELSE Later(@.clean, start + CacheTtl)]]

\* the call starts: const now = Date.now(); cache.get(movieId); a valid entry
\* is returned at once, otherwise findJustWatchNodeId is awaited. History:
\* afterFail, the call starts inside the window of a failed lookup that has
\* returned; afterClean, the same for a failed lookup that returned while it
\* was the only call for the movie
OffersStart(c) ==
    /\ FreeCall(c)
    /\ \E m \in CacheKeys :
        LET rec == [IdleCall EXCEPT
                       !.movie = m, !.start = clock,
                       !.afterFail = lastFail[m].any > clock,
                       !.afterClean = lastFail[m].clean > clock]
        IN IF CacheHit(cache[m], clock)
           THEN Return(c, [rec EXCEPT !.result = cache[m].offers])
           ELSE Await(c, rec, "search")
    /\ UNCHANGED <<cache, clock, lastFail>>
    /\ UNCHANGED <<room, members, swipes, matches, nextMatchId, matchEvents, req,
                   started, soloLiked, lastDir, stack, cleared, tmdbKey, served,
                   sockets>>

\* findJustWatchNodeId answers: the search request failed (caught inside,
\* null), found no title (null), or found a node. null: the empty list is
\* stored and returned
OffersSearch(c) ==
    /\ call[c].pc = "search"
    /\ \E answer \in {"fail", "null", "node"} :
        LET rec == [call[c] EXCEPT !.upstream = @ + 1]
        IN IF answer = "node"
           THEN /\ Await(c, rec, "offers")
                /\ UNCHANGED <<cache, lastFail>>
           ELSE /\ cache' = [cache EXCEPT ![rec.movie] = NegativeEntry(rec.start)]
                /\ Return(c, [rec EXCEPT !.result = "empty", !.failed = (answer = "fail")])
                /\ lastFail' = IF answer = "fail" THEN FailWindow(c, rec.movie, rec.start)
                                ELSE lastFail
    /\ UNCHANGED clock
    /\ UNCHANGED <<room, members, swipes, matches, nextMatchId, matchEvents, req,
                   started, soloLiked, lastDir, stack, cleared, tmdbKey, served,
                   sockets>>

\* the offers request answers: it failed (catch: the empty list is stored and
\* returned), or it gave offers of which none or some are flatrate or free
OffersRequest(c) ==
    /\ call[c].pc = "offers"
    /\ \E answer \in {"fail", "empty", "some"} :
        LET rec == [call[c] EXCEPT !.upstream = @ + 1]
        IN IF answer = "fail"
           THEN /\ cache' = [cache EXCEPT ![rec.movie] = NegativeEntry(rec.start)]
                /\ Return(c, [rec EXCEPT !.result = "empty", !.failed = TRUE])
                /\ lastFail' = FailWindow(c, rec.movie, rec.start)
           ELSE /\ cache' = [cache EXCEPT ![rec.movie] =
                                 [offers |-> answer, expiresAt |-> rec.start + CacheTtl]]
                /\ Return(c, [rec EXCEPT !.result = answer])
                /\ UNCHANGED lastFail
    /\ UNCHANGED clock
    /\ UNCHANGED <<room, members, swipes, matches, nextMatchId, matchEvents, req,
                   started, soloLiked, lastDir, stack, cleared, tmdbKey, served,
                   sockets>>

GetStreamingOffers(c) ==
    \/ OffersStart(c)
    \/ OffersSearch(c)
    \/ OffersRequest(c)

\* time passes
Tick ==
    /\ clock < MaxTime
    /\ clock' = clock + 1
    /\ call' = SweptCalls
    /\ UNCHANGED <<cache, lastFail>>
    /\ UNCHANGED <<room, members, swipes, matches, nextMatchId, matchEvents, req,
                   started, soloLiked, lastDir, stack, cleared, tmdbKey, served,
                   sockets>>

\* availability lookups, overlapping, while time passes
NextCache == (\E c \in CallSlots : GetStreamingOffers(c)) \/ Tick

SpecCache == Init /\ [][NextCache]_vars

\* the id lists one build can have stored: n distinct ids, or a list in
\* which the provider repeated an id
SharedStacks == {Iota(n) : n \in StackLens} \cup {<<1, 2, 1>>}

\* two members in an active room after the members in w have each swiped
\* movie 1 left; the stack comes from one build
InitShared ==
    /\ \E w \in SUBSET {"A", "B"} :
        /\ swipes = {[user |-> u, movie |-> 1, dir |-> "left"] : u \in w}
        /\ lastDir = [u \in Users |-> [m \in Movies |->
                          IF u \in w /\ m = 1 THEN "left" ELSE "none"]]
        /\ started = Cardinality(w)
        /\ room = [exists |-> TRUE, status |-> "active",
                   lastActivity |-> IF w = {} THEN 0 ELSE 1]
    /\ members = [u \in Users |-> IF u \in {"A", "B"} THEN "active" ELSE "none"]
    /\ matches = {}
    /\ nextMatchId = 1
    /\ matchEvents = [m \in Movies |-> 0]
    /\ req = [r \in Reqs |-> IdleReq]
    /\ soloLiked = {}
    /\ \E ids \in SharedStacks : stack = StackRows(ids, 1)
    /\ cleared = {}
    /\ EnvInit

\* reads of the stack by both members, overlapping
NextShared == \E r \in Reqs : Feed(r) \/ NextMovie(r)

SpecShared == InitShared /\ [][NextShared]_vars

\* a room with both members present and the stack still to be filled
InitStack ==
    /\ room = [exists |-> TRUE, status |-> "active", lastActivity |-> 0]
    /\ members = [u \in Users |-> IF u \in {"A", "B"} THEN "active" ELSE "none"]
    /\ swipes = {}
    /\ matches = {}
    /\ nextMatchId = 1
    /\ matchEvents = [m \in Movies |-> 0]
    /\ req = [r \in Reqs |-> IdleReq]
    /\ started = 0
    /\ soloLiked = {}
    /\ lastDir = [u \in Users |-> [m \in Movies |-> "none"]]
    /\ stack = {}
    /\ cleared = {}
    /\ EnvInit

\* filter updates and feed reads one at a time, any provider answers
NextStack == UpdateFilters(1) \/ Feed(1)

SpecStack == InitStack /\ [][NextStack]_vars

\* a provider whose every page holds the one movie 1
OnePageAnswer == {<<1>>}

\* filter updates and feed reads of both members overlapping in every way
NextOverlap == \E r \in Reqs : UpdateFiltersWith(r, OnePageAnswer) \/ Feed(r)

SpecOverlap == InitStack /\ [][NextOverlap]_vars

\* ------------------------------------------------- DELETE /api/rooms/:id/archive
\* deleted_from_archive_at set on every membership row of the room
ClearAll(cl, u) == cl \cup MemberRows

\* UPDATE room_members SET deleted_from_archive_at = NOW()
\* WHERE room_id = ? AND user_id = ?
ClearOwn(cl, u) == IF members[u] # "none" THEN cl \cup {u} ELSE cl

\* SELECT COUNT(*) FROM room_members WHERE room_id = ? AND deleted_from_archive_at IS NULL
Remaining == MemberRows \ cleared

\* GET /api/rooms: the room is among the rows answered to u
ListedFor(u) == room.exists /\ members[u] # "none" /\ u \notin cleared

\* the request arrives and the room is looked up: 404, 400 unless dissolved
ArchiveFindRoom(r) ==
    /\ FreeSlot(r)
    /\ \E u \in Users :
        LET rec == [IdleReq EXCEPT !.kind = "archive", !.user = u,
                                   !.wasCleared = u \in cleared]
        IN IF ~room.exists
           THEN req' = Arrive(r, [rec EXCEPT !.pc = "done", !.status = 404])
           ELSE IF room.status # "dissolved"
           THEN req' = Arrive(r, [rec EXCEPT !.pc = "done", !.status = 400])
           ELSE req' = Arrive(r, [rec EXCEPT !.pc = "aMembership"])
    /\ UNCHANGED <<room, members, swipes, matches, nextMatchId, matchEvents, started,
                   soloLiked, lastDir, stack, cleared>>
    /\ UNCHANGED envVars

\* SELECT 1 FROM room_members WHERE ... AND deleted_from_archive_at IS NULL
ArchiveMembership(r) ==
    /\ req[r].pc = "aMembership"
    /\ IF members[req[r].user] = "none" \/ req[r].user \in cleared
       THEN Respond(r, req[r], 403)
       ELSE Continue(r, req[r], "aUpdate")
    /\ UNCHANGED <<room, members, swipes, matches, nextMatchId, matchEvents, started,
                   soloLiked, lastDir, stack, cleared>>
    /\ UNCHANGED envVars

\* the UPDATE of the member's own row; othersLeft keeps, as history, whether
\* another member's row still had deleted_from_archive_at NULL
ArchiveUpdate(r) ==
    /\ req[r].pc = "aUpdate"
    /\ cleared' = ClearOwn(cleared, req[r].user)
    /\ Continue(r, [req[r] EXCEPT !.othersLeft = Remaining \ {req[r].user} # {}],
                "aCount")
    /\ UNCHANGED <<room, members, swipes, matches, nextMatchId, matchEvents, started,
                   soloLiked, lastDir, stack>>
    /\ UNCHANGED envVars

\* the remaining count; remaining[0].count === 0 goes on to the DELETE
ArchiveCount(r) ==
    /\ req[r].pc = "aCount"
    /\ LET n == Cardinality(Remaining)
       IN IF n = 0
          THEN Continue(r, [req[r] EXCEPT !.count = n], "aDelete")
          ELSE Respond(r, [req[r] EXCEPT !.count = n], 200)
    /\ UNCHANGED <<room, members, swipes, matches, nextMatchId, matchEvents, started,
                   soloLiked, lastDir, stack, cleared>>
    /\ UNCHANGED envVars

\* DELETE FROM rooms WHERE id = ?, cascading to every table of the room
ArchiveDelete(r) ==
    /\ req[r].pc = "aDelete"
    /\ room' = [room EXCEPT !.exists = FALSE]
    /\ members' = NoMembers
    /\ swipes' = {}
    /\ matches' = {}
    /\ stack' = {}
    /\ cleared' = {}
    /\ Respond(r, req[r], 200)
    /\ UNCHANGED <<nextMatchId, matchEvents, started, soloLiked, lastDir>>
    /\ UNCHANGED envVars

Archive(r) ==
    \/ ArchiveFindRoom(r)
    \/ ArchiveMembership(r)
    \/ ArchiveUpdate(r)
    \/ ArchiveCount(r)
    \/ ArchiveDelete(r)

\* ------------------------------------------------- PATCH /api/matches/:matchId
\* the row is removed instead of updated
SetWatchedDrop(ms, id, w) == {row \in ms : row.id # id}

\* UPDATE matches SET watched = ? WHERE id = ?
SetWatched(ms, id, w) ==
    {IF row.id = id THEN [row EXCEPT !.watched = w] ELSE row : row \in ms}

\* the request arrives and SELECT room_id FROM matches WHERE id = ? runs: 404
WatchedFindMatch(r) ==
    /\ FreeSlot(r)
    /\ \E u \in Users, id \in 1..nextMatchId, w \in BOOLEAN :
        LET rec == [IdleReq EXCEPT !.kind = "watched", !.user = u, !.count = id,
                                   !.match = w]
        IN IF \A row \in matches : row.id # id
           THEN req' = Arrive(r, [rec EXCEPT !.pc = "done", !.status = 404])
           ELSE req' = Arrive(r, [rec EXCEPT !.pc = "wMembership"])
    /\ UNCHANGED <<room, members, swipes, matches, nextMatchId, matchEvents, started,
                   soloLiked, lastDir, stack, cleared>>
    /\ UNCHANGED envVars

\* SELECT user_id FROM room_members WHERE room_id = ? AND user_id = ?: 403
WatchedMembership(r) ==
    /\ req[r].pc = "wMembership"
    /\ IF members[req[r].user] = "none"
       THEN Respond(r, req[r], 403)
       ELSE Continue(r, req[r], "wUpdate")
    /\ UNCHANGED <<room, members, swipes, matches, nextMatchId, matchEvents, started,
                   soloLiked, lastDir, stack, cleared>>
    /\ UNCHANGED envVars

\* the UPDATE; answer 200
WatchedUpdate(r) ==
    /\ req[r].pc = "wUpdate"
    /\ matches' = SetWatched(matches, req[r].count, req[r].match)
    /\ Respond(r, req[r], 200)
    /\ UNCHANGED <<room, members, swipes, nextMatchId, matchEvents, started,
                   soloLiked, lastDir, stack, cleared>>
    /\ UNCHANGED envVars

Watched(r) ==
    \/ WatchedFindMatch(r)
    \/ WatchedMembership(r)
    \/ WatchedUpdate(r)

\* ------------------------------------------------- POST /api/rooms
\* the request arrives and a room code that no room uses is found
CreateCode(r) ==
    /\ FreeSlot(r)
    /\ ~room.exists
    /\ \E u \in Users :
        req' = Arrive(r, [IdleReq EXCEPT !.kind = "create", !.user = u, !.pc = "cRoom"])
    /\ UNCHANGED <<room, members, swipes, matches, nextMatchId, matchEvents, started,
                   soloLiked, lastDir, stack, cleared>>
    /\ UNCHANGED envVars

\* INSERT INTO rooms (..., status, ...) VALUES (..., 'waiting', ...)
CreateRoom(r) ==
    /\ req[r].pc = "cRoom"
    /\ room' = [exists |-> TRUE, status |-> "waiting", lastActivity |-> r]
    /\ Continue(r, req[r], "cMember")
    /\ UNCHANGED <<members, swipes, matches, nextMatchId, matchEvents, started,
                   soloLiked, lastDir, stack, cleared>>
    /\ UNCHANGED envVars

\* INSERT INTO room_members (room_id, user_id, is_active) VALUES (?, ?, true);
\* then generateRoomStack
CreateMember(r) ==
    /\ req[r].pc = "cMember"
    /\ members' = [members EXCEPT ![req[r].user] = "active"]
    /\ Continue(r, req[r], "gDelete")
    /\ UNCHANGED <<room, swipes, matches, nextMatchId, matchEvents, started,
                   soloLiked, lastDir, stack, cleared>>
    /\ UNCHANGED envVars

\* SELECT ... FROM rooms WHERE id = ?; res.status(201).json({ room: rooms[0] })
CreateSelect(r) ==
    /\ req[r].pc = "cSelect"
    /\ Respond(r, req[r], 201)
    /\ UNCHANGED <<room, members, swipes, matches, nextMatchId, matchEvents, started,
                   soloLiked, lastDir, stack, cleared>>
    /\ UNCHANGED envVars

\* the handler with a provider whose pages answer with a list from `answers`
CreateWith(r, answers) ==
    \/ CreateCode(r)
    \/ CreateRoom(r)
    \/ CreateMember(r)
    \/ StackDelete(r)
    \/ StackFetchFrom(r, answers)
    \/ StackInsert(r)
    \/ CreateSelect(r)

\* no room yet; the provider key set or not
InitKey ==
    /\ room = [exists |-> FALSE, status |-> "waiting", lastActivity |-> 0]
    /\ members = NoMembers
    /\ swipes = {}
    /\ matches = {}
    /\ nextMatchId = 1
    /\ matchEvents = [m \in Movies |-> 0]
    /\ req = [r \in Reqs |-> IdleReq]
    /\ started = 0
    /\ soloLiked = {}
    /\ lastDir = [u \in Users |-> [m \in Movies |-> "none"]]
    /\ stack = {}
    /\ cleared = {}
    /\ tmdbKey \in BOOLEAN
    /\ served = [u \in Users |-> [p \in Pages |-> NotServed]]
    /\ CacheInit
    /\ SocketInit

\* room creation and filter updates, one request at a time
NextKey == CreateWith(1, OnePageAnswer) \/ UpdateFiltersWith(1, OnePageAnswer)

SpecKey == InitKey /\ [][NextKey]_vars

\* every handler that writes to the room, one request at a time, from the
\* room's creation to its hard deletion
NextLife ==
    \/ Swipe(1)
    \/ Join(1)
    \/ Leave(1)
    \/ UpdateFiltersWith(1, OnePageAnswer)
    \/ Watched(1)
    \/ Archive(1)

SpecLife == Init /\ [][NextLife]_vars

Next == \E r \in Reqs : Swipe(r) \/ Join(r) \/ Leave(r)

Spec == Init /\ [][Next]_vars

\* create, join and leave requests executed one at a time: a single slot, so
\* a request arrives only after the previous one was answered
NextSeq == Join(1) \/ Leave(1)

SpecSeq == Init /\ [][NextSeq]_vars

\* ------------------------------------------------- socket.io: initSocket
\* what a join message carries as token: nothing, a string jwt.verify
\* rejects, or a valid token of a user
Tokens == {"none", "bad"} \cup Users

\* jwt.verify(token, config.jwtSecret) returns the payload
TokenValid(token) == token \in Users

\* the state outside the connections
nonSocketVars ==
    <<room, members, swipes, matches, nextMatchId, matchEvents, req, started,
      soloLiked, lastDir, stack, cleared, tmdbKey, served, cache, clock, call,
      lastFail>>

\* io.on('connection', ...): a client connects
SocketConnect(s) ==
    /\ ~sockets[s].open
    /\ sockets' = [sockets EXCEPT ![s] = [ClosedSocket EXCEPT !.open = TRUE]]
    /\ UNCHANGED nonSocketVars

\* socket.on('join', payload): roomId 0 stands for a payload without roomId.
\* Missing token or roomId: error event, disconnect. jwt.verify throws: error
\* event, disconnect. Otherwise socket.join(`room:${roomId}`) and `joined`.
\* member keeps, as history, whether the token's user had a membership row of
\* the room named when the message was handled; rooms other than room 1 have
\* no rows.
SocketJoin(s) ==
    /\ sockets[s].open
    /\ \E token \in Tokens, roomId \in 0..NumRoomIds :
        LET msg == [sockets[s] EXCEPT
                       !.token = token, !.roomId = roomId,
                       !.member = /\ token \in Users
                                  /\ roomId = 1
                                  /\ members[token] # "none"]
        IN sockets' = [sockets EXCEPT ![s] =
               IF token = "none" \/ roomId = 0
               THEN [msg EXCEPT !.event = "error", !.open = FALSE, !.subs = {}]
               ELSE IF ~TokenValid(token)
               THEN [msg EXCEPT !.event = "error", !.open = FALSE, !.subs = {}]
               ELSE [msg EXCEPT !.event = "joined", !.subs = @ \cup {roomId}]]
    /\ UNCHANGED nonSocketVars

\* the client closes the connection: the socket leaves every channel
SocketDisconnect(s) ==
    /\ sockets[s].open
    /\ sockets' = [sockets EXCEPT ![s] = [@ EXCEPT !.open = FALSE, !.subs = {}]]
    /\ UNCHANGED nonSocketVars

Socket(s) ==
    \/ SocketConnect(s)
    \/ SocketJoin(s)
    \/ SocketDisconnect(s)

\* clients connect and subscribe while users join and leave the room
NextSocket == Join(1) \/ Leave(1) \/ \E s \in Sockets : Socket(s)

SpecSocket == Init /\ [][NextSocket]_vars

\* ================================================================ claims
AnsweredSwipe(r) == req[r].pc = "done" /\ req[r].kind = "swipe"

Quiescent == \A r \in Reqs : ~InFlight(r)

\* C1: in every reachable state there is at most one match row per movie of
\* the room, whatever the interleaving of the members' right-swipe requests.
C1_AtMostOneMatchPerMovie ==
    \A m \in Movies : Cardinality(MatchRowsOf(matches, m)) <= 1

\* two requests for the same movie raced to the insert: one has inserted the
\* row, the other has passed the existing-match check and is about to insert
C1_Witness ==
    \E r, s \in Reqs :
        /\ r # s
        /\ req[r].kind = "swipe" /\ req[s].kind = "swipe"
        /\ req[r].movie = req[s].movie
        /\ req[r].inserted
        /\ req[s].pc = "insert"

\* C2: the request that loses the insert race (its INSERT is rejected by the
\* unique key) is answered as a normal swipe response with match = null.
C2_LoserAnswersNoMatch ==
    \A r \in Reqs :
        (AnsweredSwipe(r) /\ req[r].conflict) =>
            (req[r].status = 201 /\ ~req[r].match)

\* C3: whenever a match row is inserted, at that moment the room has at least
\* two membership rows and every user with a membership row holds a right
\* swipe for the movie.
C3_InsertOnlyWhenEligible ==
    \A r \in Reqs : req[r].inserted => req[r].eligible

\* C4: in every state with no request in progress, a movie that both users of
\* a room with exactly two membership rows currently hold a right swipe for
\* has exactly one match row (never zero).
C4_QuiescentBothRightMatched ==
    Quiescent =>
        \A m \in Movies :
            ( /\ Cardinality(MemberRows) = 2
              /\ \A u \in MemberRows : DirOf(swipes, u, m) = "right" )
                => Cardinality(MatchRowsOf(matches, m)) = 1

\* overlapping right swipes have all been answered, both members hold right
\* and exactly one match row exists
C4_Witness ==
    /\ Quiescent
    /\ \E r \in Reqs :
        /\ AnsweredSwipe(r) /\ ~req[r].alone /\ req[r].dir = "right"
        /\ req[r].status # 403
        /\ Cardinality(MemberRows) = 2
        /\ \A u \in MemberRows : DirOf(swipes, u, req[r].movie) = "right"
        /\ Cardinality(MatchRowsOf(matches, req[r].movie)) = 1

\* C5: per movie the `match` event is published at most once, only by the
\* request that inserted the match row and after the insert; every other
\* swipe request of a member on that movie is answered with match = null and
\* publishes nothing.
C5_MatchEventOnlyByInserter ==
    /\ \A m \in Movies : matchEvents[m] <= 1
    /\ \A r \in Reqs :
        (AnsweredSwipe(r) /\ req[r].status # 403 /\ room.exists) =>
            IF req[r].inserted
            THEN req[r].emitted /\ req[r].match /\ req[r].status = 201
            ELSE ~req[r].emitted /\ ~req[r].match /\ req[r].status = 201

LateJoinerCase(r) ==
    /\ AnsweredSwipe(r) /\ req[r].alone /\ req[r].dir = "right"
    /\ req[r].user # "A"
    /\ req[r].movie \in soloLiked
    /\ room.exists
    /\ MemberRows = {"A", req[r].user}
    /\ DirOf(swipes, "A", req[r].movie) = "right"
    /\ MatchRowsOf(req[r].matchesBefore, req[r].movie) = {}

\* C7: late joiner: A right-swiped m while alone in the room; B joins and
\* right-swipes m; B's request inserts the match and returns isMatch = true.
C7_LateJoinerMatches ==
    \A r \in Reqs :
        LateJoinerCase(r) =>
            /\ req[r].status = 201 /\ req[r].match /\ req[r].inserted
            /\ Cardinality(MatchRowsOf(matches, req[r].movie)) = 1

C7_Witness == \E r \in Reqs : LateJoinerCase(r) /\ req[r].match

\* the case of C8: a right swipe by a user whose swipe row is already right,
\* on a movie that had a match row when the request arrived
ResubmitCase(r) ==
    /\ AnsweredSwipe(r) /\ req[r].dir = "right"
    /\ req[r].prevDir = "right"
    /\ room.exists
    /\ MatchRowsOf(req[r].matchesBefore, req[r].movie) # {}

\* C8: re-submitting a right swipe on a matched movie succeeds, inserts no
\* second match row, returns match = null and publishes no event; when no
\* other request overlaps, the matches table is unchanged and the user's
\* single swipe row is still right.
C8_ResubmitIdempotent ==
    \A r \in Reqs :
        ResubmitCase(r) =>
            /\ req[r].status = 201 /\ ~req[r].match
            /\ ~req[r].inserted /\ ~req[r].emitted
            /\ Cardinality(MatchRowsOf(matches, req[r].movie)) = 1
            /\ req[r].alone =>
                /\ matches = req[r].matchesBefore
                /\ SwipeRowsOf(swipes, req[r].user, req[r].movie) =
                       {[user |-> req[r].user, movie |-> req[r].movie, dir |-> "right"]}

C8_Witness == \E r \in Reqs : ResubmitCase(r) /\ req[r].alone

\* the final right swipe of right, left, right: the user's row was left, the
\* partner holds right, no match row existed yet, nothing overlapped
FlipBackCase(r) ==
    /\ AnsweredSwipe(r) /\ req[r].alone /\ req[r].dir = "right"
    /\ req[r].prevDir = "left"
    /\ room.exists
    /\ \E v \in Users \ {req[r].user} :
        /\ MemberRows = {req[r].user, v}
        /\ DirOf(swipes, v, req[r].movie) = "right"
    /\ MatchRowsOf(req[r].matchesBefore, req[r].movie) = {}

\* C9: last write wins: at most one swipe row per (user, movie), its
\* direction is that of the user's most recently recorded swipe, and match
\* detection runs again on a right swipe that overwrites a left one.
C9_LastWriteWins ==
    /\ \A u \in Users, m \in Movies : Cardinality(SwipeRowsOf(swipes, u, m)) <= 1
    /\ room.exists => \A u \in Users, m \in Movies : DirOf(swipes, u, m) = lastDir[u][m]
    /\ \A r \in Reqs :
        FlipBackCase(r) => (req[r].status = 201 /\ req[r].match /\ req[r].inserted)

\* A liked the movie when alone, flipped to left, and now flipped back
C9_Witness ==
    \E r \in Reqs :
        /\ FlipBackCase(r)
        /\ req[r].user = "A" /\ req[r].movie \in soloLiked
        /\ SwipeRowsOf(swipes, "A", req[r].movie) =
               {[user |-> "A", movie |-> req[r].movie, dir |-> "right"]}

\* the case of C10: a right swipe of u, not overlapping any request, in a
\* room whose other membership row v is inactive
DepartedCase(r, v) ==
    /\ AnsweredSwipe(r) /\ req[r].alone /\ req[r].dir = "right"
    /\ room.exists
    /\ v # req[r].user
    /\ MemberRows = {req[r].user, v}
    /\ members[v] = "inactive"

\* C10 as stated: after B left, A's right swipe on m creates a match if and
\* only if B's recorded swipe for m is right.
C10_Original ==
    \A r \in Reqs, v \in Users :
        DepartedCase(r, v) =>
            (req[r].inserted <=> DirOf(swipes, v, req[r].movie) = "right")

\* C10 amended: after B left, A's right swipe on a movie that has no match
\* row yet creates the match if and only if B's recorded swipe for it is
\* right; the inactive row still counts in M.
C10_DepartedMemberStillCounts ==
    \A r \in Reqs, v \in Users :
        (DepartedCase(r, v) /\ MatchRowsOf(req[r].matchesBefore, req[r].movie) = {}) =>
            /\ req[r].status = 201
            /\ req[r].inserted <=> DirOf(swipes, v, req[r].movie) = "right"
            /\ req[r].match <=> req[r].inserted
            /\ MatchRowsOf(matches, req[r].movie) # {} <=> req[r].inserted

\* B liked the movie, left, and A's later right swipe created the match
C10_Witness ==
    \E r \in Reqs, v \in Users :
        /\ DepartedCase(r, v)
        /\ MatchRowsOf(req[r].matchesBefore, req[r].movie) = {}
        /\ req[r].inserted

\* C12: in every reachable state the room has at most 2 membership rows,
\* also when two users who are not yet members join concurrently.
C12_AtMostTwoMemberRows == Cardinality(MemberRows) <= 2

\* C15: once the leave requests of both members have been answered the room
\* is dissolved: no state without a request in progress has an existing
\* room with two membership rows, zero active members and status waiting or
\* active.
C15_AllLeftMeansDissolved ==
    (Quiescent /\ room.exists /\ Cardinality(MemberRows) = 2 /\ ActiveRows = {})
        => room.status = "dissolved"

\* C13: with requests executed one at a time, between two requests every
\* existing room that is not dissolved has status active iff it has exactly
\* two active members and status waiting iff it has exactly one.
C13_StatusTracksActiveCount ==
    (Quiescent /\ room.exists /\ room.status # "dissolved")
        => /\ room.status = "active" <=> Cardinality(ActiveRows) = 2
           /\ room.status = "waiting" <=> Cardinality(ActiveRows) = 1

\* a member left while the other remained: two rows, one active, waiting
C13_Witness ==
    /\ Quiescent
    /\ room.exists
    /\ room.status = "waiting"
    /\ Cardinality(MemberRows) = 2
    /\ Cardinality(ActiveRows) = 1
    /\ \E r \in Reqs : req[r].pc = "done" /\ req[r].kind = "leave" /\ req[r].status = 200

\* C14: when the last active member leaves, a room with two membership rows
\* is kept as dissolved with its matches retained, and the room is deleted
\* outright only when a single membership row exists; every dissolved room
\* has exactly two membership rows.
C14_LastLeaveDissolvesOrDeletes ==
    /\ (room.exists /\ room.status = "dissolved") => Cardinality(MemberRows) = 2
    /\ \A r \in Reqs :
        (req[r].pc = "done" /\ req[r].kind = "leave" /\ req[r].lastMember) =>
            IF req[r].memberCount > 0
            THEN req[r].memberCount = 1
            ELSE room.exists =>
                    /\ room.status = "dissolved"
                    /\ req[r].matchesBefore \subseteq matches

\* an answered PATCH /api/rooms/:id/filters
AnsweredBuild(r) == req[r].pc = "done" /\ req[r].kind = "filters" /\ req[r].status # 403

\* C17: after a build that completes without overlapping another request,
\* the stack rows are exactly the ids the build received, in page order and
\* within-page order, at positions 0..n-1, each position used once and no row
\* of an earlier build left; so the rows depend on the provider answers only
\* and a second run with the same answers gives the same stack.
C17_BuildReplacesStack ==
    \A r \in Reqs :
        (AnsweredBuild(r) /\ req[r].status = 200 /\ req[r].alone) =>
            /\ Visible(stack) = Visible(StackRows(req[r].ids, r))
            /\ Cardinality(stack) = Len(req[r].ids)
            /\ {row.pos : row \in stack} = 0..(Len(req[r].ids) - 1)

\* a build over a populated stack that received two different ids
C17_Witness ==
    \E r \in Reqs :
        /\ AnsweredBuild(r) /\ req[r].status = 200 /\ req[r].alone
        /\ req[r].hadRows
        /\ Len(req[r].ids) >= 2
        /\ req[r].ids[1] # req[r].ids[2]
        /\ stack = StackRows(req[r].ids, r)

\* rows of one build only, and no position used twice
SingleBuild(rows) ==
    \A x, y \in rows : x.build = y.build /\ (x.pos = y.pos => x = y)

\* C18: in every state the stack rows come from a single build and no
\* position occurs twice, and so do the rows any feed read is answered with,
\* for every interleaving of filter updates and feed reads.
C18_StackFromSingleBuild ==
    /\ SingleBuild(stack)
    /\ \A r \in Reqs :
        (req[r].pc = "done" /\ req[r].kind = "feed") => SingleBuild(req[r].seen)

\* C19: in every state no movie id occurs in two rows of the stack.
C19_NoDuplicateMovieInStack ==
    \A x, y \in stack : x.movie = y.movie => x = y

\* C20: a build in which the fetch of some page failed, in whichever way, is
\* answered normally and leaves exactly the ids of the pages before as the stack.
C20_FetchFailureKeepsPartialStack ==
    \A r \in Reqs :
        (AnsweredBuild(r) /\ req[r].failKind # "none") =>
            /\ req[r].status = 200
            /\ Visible(stack) = Visible(StackRows(req[r].ids, r))

\* C11: a match row, once present, keeps its id and its movie through every
\* step of every handler (swipe, join, leave, filter update with its stack
\* rebuild, watched update, archive); a step can change its watched flag only,
\* and the row is gone after a step only if the room row is gone too.
C11_MatchesPermanent ==
    [][\A row \in matches :
          \/ \E kept \in matches' : kept.id = row.id /\ kept.movie = row.movie
          \/ ~room'.exists]_vars

\* the match is there, marked watched, after a member changed the swipe on
\* its movie to left and the stack was rebuilt
C11_Witness ==
    \E row \in matches :
        /\ row.watched
        /\ \E u \in MemberRows : DirOf(swipes, u, row.movie) = "left"
        /\ stack # {}

AnsweredArchive(r) == req[r].pc = "done" /\ req[r].kind = "archive"

\* C16: an archive deletion is accepted only on a dissolved room and only
\* from a member who has not cleared it yet; when another member has not
\* cleared it, the room row, its matches and that member's row stay and the
\* room is still listed for that member and no longer for the requester; the
\* room is deleted exactly by the request of the last member left to clear it.
C16_ArchiveNeedsBothAcks ==
    /\ (Quiescent /\ room.exists) => Remaining # {}
    /\ \A r \in Reqs : AnsweredArchive(r) =>
        /\ (room.exists /\ room.status # "dissolved") => req[r].status = 400
        /\ req[r].wasCleared => req[r].status = 403
        /\ (req[r].status = 200 /\ req[r].othersLeft) =>
              /\ room.exists
              /\ room.status = "dissolved"
              /\ matches = req[r].matchesBefore
              /\ ~ListedFor(req[r].user)
              /\ \E v \in MemberRows \ {req[r].user} : ListedFor(v)
        /\ (req[r].status = 200 /\ ~req[r].othersLeft) => ~room.exists

\* the first of two members has cleared a room that holds a match
C16_Witness ==
    \E r \in Reqs :
        /\ AnsweredArchive(r) /\ req[r].status = 200 /\ req[r].othersLeft
        /\ matches # {}
        /\ Cardinality(MemberRows) = 2
        /\ Cardinality(cleared) = 1

\* C21: without a provider key generateRoomStack raises, and the room
\* creation or filter update that called it answers a failure, not a success.
C21_MissingKeyIsFatal ==
    \A r \in Reqs :
        (req[r].pc = "done" /\ req[r].kind \in {"create", "filters"}
            /\ req[r].status # 403 /\ ~tmdbKey) =>
            /\ req[r].status = 500
            /\ req[r].failKind = "config"

\* a filter update on the created room is answered 500 for want of the key
C21_Witness ==
    \E r \in Reqs :
        /\ req[r].pc = "done" /\ req[r].kind = "filters"
        /\ ~tmdbKey /\ room.exists
        /\ req[r].status = 500

\* a feed or next-movie request answered with movie data
AnsweredRead(r) ==
    /\ req[r].pc = "done"
    /\ req[r].kind \in {"feed", "next"}
    /\ req[r].status = 200

\* C22: no movie returned by the feed (any page) or by next-movie is one the
\* caller had a swipe row for when the request read the swipe history
C22_NoSwipedMovieServed ==
    \A r \in Reqs :
        AnsweredRead(r) =>
            \A i \in 1..Len(req[r].ids) : req[r].ids[i] \notin req[r].swiped

\* a non-empty feed page answered to a user who has swiped a movie of the stack
C22_Witness ==
    \E r \in Reqs :
        /\ AnsweredRead(r) /\ req[r].kind = "feed"
        /\ req[r].ids # <<>>
        /\ \E row \in stack : row.movie \in req[r].swiped

\* the stack rows the caller of r had not swiped when r read the swipes
UnswipedRows(r) == {row \in stack : row.movie \notin req[r].swiped}

\* the number of unswiped rows that come before row by position
RankOf(r, row) == Cardinality({y \in UnswipedRows(r) : y.pos < row.pos})

\* C23: page p of the feed holds the elements with index (p-1)*20 up to p*20
\* (exclusive) of the stack ordered by position with the caller's swiped
\* movies removed: at most 20 items, in stack order
C23_PageIsSliceOfUnswiped ==
    \A r \in Reqs :
        (AnsweredRead(r) /\ req[r].kind = "feed") =>
            LET lo == (req[r].page - 1) * FeedPageSize
                onPage == {row \in UnswipedRows(r) :
                              RankOf(r, row) >= lo /\ RankOf(r, row) < lo + FeedPageSize}
            IN /\ Len(req[r].ids) = Cardinality(onPage)
               /\ Len(req[r].ids) <= FeedPageSize
               /\ \A i \in 1..Len(req[r].ids) :
                      \E row \in onPage :
                          /\ RankOf(r, row) = lo + i - 1
                          /\ row.movie = req[r].ids[i]

\* a second page with items, answered to a user who has swiped
C23_Witness ==
    \E r \in Reqs :
        /\ AnsweredRead(r) /\ req[r].kind = "feed"
        /\ req[r].page = 2
        /\ req[r].ids # <<>>
        /\ req[r].swiped # {}

\* the movie ids of the page the feed has answered last to u for page p
ServedIds(u, p) == {served[u][p][i] : i \in 1..Len(served[u][p])}

\* C24: with the stack unchanged, the feed pages answered to one user for
\* two different page numbers share no movie id, also when the user has
\* swiped between the two requests
C24_PagesNeverRepeat ==
    \A u \in Users : \A p, q \in Pages :
        p # q => ServedIds(u, p) \cap ServedIds(u, q) = {}

\* request r has read the stack and chosen the movies it will answer with
HasChosen(r) ==
    /\ req[r].kind \in {"feed", "next"}
    /\ \/ req[r].pc \in {"dEnrich", "nEnrich"}
       \/ req[r].pc = "done" /\ req[r].status = 200

\* the least position after minPos at which the stack holds movie m, -1 if
\* none (positions start at 0)
NextPosOf(m, minPos) ==
    LET cands == {row.pos : row \in {x \in stack : x.movie = m /\ x.pos > minPos}}
    IN IF cands = {} THEN -1
       ELSE CHOOSE c \in cands : \A d \in cands : c <= d

\* ids from index i on can be found in the stack at increasing positions
\* after minPos
RECURSIVE Embeds(_, _, _)
Embeds(ids, i, minPos) ==
    \/ i > Len(ids)
    \/ /\ NextPosOf(ids[i], minPos) # -1
       /\ Embeds(ids, i + 1, NextPosOf(ids[i], minPos))

\* C25: the stack order is shared: two members who have swiped the same
\* set of movies get the same feed page for every page number and the same
\* next-movie, and every feed page is a subsequence of the stack's position
\* order
C25_SharedStackOrder ==
    /\ \A r1, r2 \in Reqs :
          (/\ HasChosen(r1) /\ HasChosen(r2)
           /\ req[r1].user # req[r2].user
           /\ req[r1].swiped = req[r2].swiped) =>
              /\ (req[r1].kind = req[r2].kind /\ req[r1].page = req[r2].page) =>
                     req[r1].ids = req[r2].ids
              /\ (req[r1].kind = "next" /\ req[r2].kind = "feed" /\ req[r2].page = 1) =>
                     /\ (req[r1].ids = <<>>) <=> (req[r2].ids = <<>>)
                     /\ req[r1].ids # <<>> => req[r1].ids[1] = req[r2].ids[1]
    /\ \A r \in Reqs : HasChosen(r) => Embeds(req[r].ids, 1, -1)

\* both members, each having swiped movie 1, hold the same non-empty page
C25_Witness ==
    \E r1, r2 \in Reqs :
        /\ HasChosen(r1) /\ HasChosen(r2)
        /\ req[r1].user = "A" /\ req[r2].user = "B"
        /\ req[r1].kind = "feed" /\ req[r2].kind = "feed"
        /\ req[r1].page = req[r2].page
        /\ req[r1].swiped = {1} /\ req[r2].swiped = {1}
        /\ Len(req[r1].ids) > 1

\* C26: the feed and next-movie answer 403, and nothing of the stack, to
\* every caller who is not an active member: a user without a membership
\* row and a user whose row has is_active = false
C26_ReadsFailClosed ==
    \A r \in Reqs :
        (/\ req[r].pc = "done"
         /\ req[r].kind \in {"feed", "next"}
         /\ members[req[r].user] # "active") =>
            /\ req[r].status = 403
            /\ req[r].ids = <<>>

\* C27: a feed answer carries the "stack exhausted" signal exactly when the
\* caller has no unswiped movie left in the stack, so that this answer
\* differs from the one for a short page or for a page beyond the last
C27_ExhaustionSignalled ==
    \A r \in Reqs :
        (AnsweredRead(r) /\ req[r].kind = "feed") =>
            ((req[r].stackEmpty = "true") <=> (UnswipedRows(r) = {}))

\* C28: a feed request during which the metadata lookup of one movie of the
\* page fails is still answered 200: one failing lookup never turns the
\* whole request into an error
C28_LookupFailureDegrades ==
    \A r \in Reqs :
        (/\ req[r].pc = "done"
         /\ req[r].kind = "feed"
         /\ req[r].failKind = "lookup") =>
            req[r].status = 200

\* C29: when the lookups fail after the match row was inserted, the step
\* that ends checkAndCreateMatch leaves the matches table as it is, the
\* swipe is answered 201 with isMatch = true for that movie, and the `match`
\* event is published
C29_EnrichmentBestEffort ==
    [][\A r \in Reqs :
          (/\ req[r].pc = "enrich"
           /\ req'[r].pc = "done"
           /\ ~req'[r].enriched) =>
              /\ matches' = matches
              /\ req'[r].status = 201
              /\ req'[r].match
              /\ req'[r].movie = req[r].movie
              /\ req'[r].emitted
              /\ matchEvents'[req[r].movie] = matchEvents[req[r].movie] + 1]_vars

\* a swipe that inserted the match row, whose lookups failed, answered 201
\* while the row is in the table
C29_Witness ==
    \E r \in Reqs :
        /\ req[r].pc = "done" /\ req[r].kind = "swipe"
        /\ req[r].inserted /\ ~req[r].enriched
        /\ req[r].status = 201
        /\ \E row \in matches : row.movie = req[r].movie

\* the getStreamingOffers call in slot c has just returned
Returned(c) == call[c].pc = "done"

\* C30 as stated: after a failed lookup for a movie has returned, every call
\* for that movie that starts within the TTL window of the failure returns
\* the empty list and makes no upstream request
C30_Original ==
    \A c \in CallSlots :
        (Returned(c) /\ call[c].afterFail) =>
            /\ call[c].result = "empty"
            /\ call[c].upstream = 0

\* C30 amended: a call whose upstream lookup fails returns the empty list
\* and stores it with the expiry start + TTL; when the failed call returned
\* while no other call for the movie was in flight, every call for the movie
\* that starts before that expiry returns the empty list, makes no upstream
\* request and leaves the cache as it is
C30_NegativeCaching ==
    [][\A c \in CallSlots :
          (call[c].pc # "done" /\ call'[c].pc = "done") =>
              /\ call'[c].failed =>
                     /\ call'[c].result = "empty"
                     /\ cache'[call'[c].movie] =
                            [offers |-> "empty", expiresAt |-> call'[c].start + CacheTtl]
              /\ call'[c].afterClean =>
                     /\ call'[c].result = "empty"
                     /\ call'[c].upstream = 0
                     /\ cache' = cache]_vars

\* a call that started, later than the failure, inside the window of a
\* failed lookup and was answered with the empty list and no upstream request
C30_Witness ==
    \E c \in CallSlots :
        /\ Returned(c)
        /\ call[c].afterClean
        /\ call[c].start > 0
        /\ call[c].result = "empty" /\ call[c].upstream = 0
        /\ cache[call[c].movie].expiresAt = lastFail[call[c].movie].clean

\* C31: a call for movie m at time t is answered from the cache, with no
\* upstream request, exactly when an entry for m with expiresAt > t is
\* stored; otherwise it goes upstream and overwrites the entry with the
\* expiry (start of the call) + TTL. No entry is ever removed, and the
\* passing of time leaves the cache as it is
C31_CacheTtl ==
    [][/\ \A c \in CallSlots :
            /\ (call[c].pc \in {"idle", "done"} /\ call'[c].pc # "idle") =>
                   LET e == cache[call'[c].movie]
                   IN IF e.offers # "none" /\ e.expiresAt > clock
                      THEN /\ call'[c].pc = "done"
                           /\ call'[c].result = e.offers
                           /\ call'[c].upstream = 0
                           /\ cache' = cache
                      ELSE /\ call'[c].pc = "search"
                           /\ cache' = cache
            /\ (call[c].pc \in {"search", "offers"} /\ call'[c].pc = "done") =>
                   /\ call'[c].upstream > 0
                   /\ cache'[call[c].movie].offers = call'[c].result
                   /\ cache'[call[c].movie].expiresAt = call[c].start + CacheTtl
       /\ \A m \in CacheKeys : cache[m].offers # "none" => cache'[m].offers # "none"
       /\ clock' # clock => cache' = cache]_vars

\* a call that starts exactly at the expiry time of the stored entry and
\* goes upstream
C31_Witness ==
    \E c \in CallSlots :
        /\ call[c].pc = "search"
        /\ cache[call[c].movie].offers # "none"
        /\ cache[call[c].movie].expiresAt = call[c].start
        /\ call[c].start = clock

\* C32: a swipe request of a user without a membership row is answered 403
\* in the step of its membership check, and that step changes no swipe row,
\* not the room's last activity, no match row and publishes no event
C32_NonMemberSwipeRefused ==
    [][\A r \in Reqs :
          (/\ req'[r].kind = "swipe"
           /\ req[r].pc \in {"idle", "done"}
           /\ req'[r].pc # "idle"
           /\ members[req'[r].user] = "none") =>
              /\ req'[r].pc = "done"
              /\ req'[r].status = 403
              /\ ~req'[r].match /\ ~req'[r].emitted
              /\ swipes' = swipes
              /\ room' = room
              /\ matches' = matches
              /\ matchEvents' = matchEvents]_vars

\* a refused swipe of a non-member while the room holds swipe rows
C32_Witness ==
    \E r \in Reqs :
        /\ req[r].pc = "done" /\ req[r].kind = "swipe"
        /\ req[r].status = 403
        /\ members[req[r].user] = "none"
        /\ swipes # {}

\* C33: every step of a left swipe leaves the matches table, the published
\* events and the memberships as they are and changes at most the swipe row
\* of that user and movie; the request never enters match detection and is
\* answered with match = null and no event
C33_LeftSwipeNeverMatches ==
    [][\A r \in Reqs :
          (/\ req'[r].kind = "swipe" /\ req'[r].dir = "left"
           /\ req'[r].pc # "idle"
           /\ (req[r].pc # req'[r].pc \/ req[r].pc = "done")) =>
              /\ matches' = matches
              /\ matchEvents' = matchEvents
              /\ members' = members
              /\ room'.status = room.status /\ room'.exists = room.exists
              /\ \A x \in (swipes \ swipes') \cup (swipes' \ swipes) :
                     x.user = req'[r].user /\ x.movie = req'[r].movie
              /\ req'[r].pc \in {"upsert", "touch", "done"}
              /\ ~req'[r].match /\ ~req'[r].emitted]_vars

\* a left swipe answered 201 while another member holds a right swipe for
\* the movie
C33_Witness ==
    \E r \in Reqs :
        /\ req[r].pc = "done" /\ req[r].kind = "swipe" /\ req[r].dir = "left"
        /\ req[r].status = 201
        /\ \E x \in swipes :
               x.user # req[r].user /\ x.movie = req[r].movie /\ x.dir = "right"

\* the membership rows of a members table
RowsOf(ms) == {u \in Users : ms[u] # "none"}

\* C34: a join by a user who has a membership row never adds a row. With an
\* active row the request is answered in the step of its membership check,
\* which changes nothing and publishes nothing. With an inactive row, in a
\* room not dissolved, the request sets the row active, sets the room
\* active and publishes partner_joined; the room then has the two active
\* rows and the active status it had before that member left
C34_JoinByExistingMember ==
    [][\A r \in Reqs :
          (req[r].kind = "join" /\ req[r].pc # "done" /\ req'[r].pc # req[r].pc
              /\ members[req[r].user] # "none") =>
              /\ RowsOf(members') = RowsOf(members)
              /\ (req[r].pc = "jMembership" /\ members[req[r].user] = "active") =>
                     /\ req'[r].pc = "done" /\ req'[r].status = 200
                     /\ ~req'[r].joined
                     /\ members' = members /\ room' = room
              /\ (req[r].pc = "jMembership" /\ members[req[r].user] = "inactive") =>
                     req'[r].pc = "jReactivate"
              /\ req[r].pc = "jReactivate" => members'[req[r].user] = "active"
              /\ req[r].pc = "jSetActive" =>
                     /\ req'[r].pc = "done" /\ req'[r].status = 200
                     /\ req'[r].joined
                     /\ room'.status = "active"
                     /\ Cardinality(RowsOf(members')) = 2
                     /\ \A u \in RowsOf(members') : members'[u] = "active"]_vars

\* a member who had left has rejoined: two active rows, room active
C34_Witness ==
    \E r \in Reqs :
        /\ req[r].pc = "done" /\ req[r].kind = "join"
        /\ req[r].rejoined /\ req[r].joined
        /\ room.status = "active"
        /\ \A u \in {"A", "B"} : members[u] = "active"

\* C35 as stated: a join of a user without a row, answered while the room
\* holds two membership rows, is answered 409 room-full
C35_Original ==
    \A r \in Reqs :
        (/\ req[r].pc = "done" /\ req[r].kind = "join"
         /\ members[req[r].user] = "none"
         /\ Cardinality(RowsOf(members)) = 2) =>
            req[r].status = 409

\* C35 amended: while the room holds two membership rows, active or not,
\* the steps of a join by a third user up to its count leave the rows and
\* the room as they are; the request is refused with 410 at its arrival
\* when the room is dissolved and with 409 at its count otherwise
C35_DepartedKeepsSlot ==
    [][\A r \in Reqs :
          (/\ req'[r].kind = "join"
           /\ req'[r].pc # "idle"
           /\ (req[r].pc # req'[r].pc \/ req[r].pc = "done")
           /\ req[r].pc \in {"idle", "done", "jMembership", "jCount"}
           /\ members[req'[r].user] = "none"
           /\ Cardinality(RowsOf(members)) = 2) =>
              /\ members' = members
              /\ room' = room
              /\ req[r].pc \in {"idle", "done"} =>
                     IF room.status = "dissolved"
                     THEN req'[r].pc = "done" /\ req'[r].status = 410
                     ELSE req'[r].pc = "jMembership"
              /\ req[r].pc = "jMembership" => req'[r].pc = "jCount"
              /\ req[r].pc = "jCount" =>
                     /\ req'[r].pc = "done" /\ req'[r].status = 409
                     /\ ~req'[r].joined]_vars

\* a third user refused as room-full while one of the two members has left
C35_Witness ==
    \E r \in Reqs :
        /\ req[r].pc = "done" /\ req[r].kind = "join"
        /\ req[r].status = 409
        /\ members[req[r].user] = "none"
        /\ Cardinality(RowsOf(members)) = 2
        /\ \E u \in Users : members[u] = "inactive"

\* C36: once the room's status is dissolved, no step of any join, rejoin or
\* leave, in any interleaving, sets it to waiting or active
C36_DissolvedIsAbsorbing ==
    [][(room.exists /\ room.status = "dissolved" /\ room'.exists) =>
          room'.status = "dissolved"]_vars

\* C37: while the room's status is dissolved, no step inserts or changes a
\* swipe row, inserts a match row or publishes a `match` event
C37_DissolvedRoomFrozen ==
    [][(room.exists /\ room.status = "dissolved") =>
          /\ swipes' \subseteq swipes
          /\ {row.id : row \in matches'} \subseteq {row.id : row \in matches}
          /\ matchEvents' = matchEvents]_vars
\* the feed has answered A an empty page
EmptyPage(r) ==
    /\ req[r].kind = "feed"
    /\ req[r].pc = "done"
    /\ req[r].status = 200
    /\ req[r].user = "A"
    /\ req[r].ids = <<>>

\* C38: when the feed answers the first empty page to a user who asked for the
\* pages 1, 2, 3, ... in order and swiped every served movie before the next
\* page, every movie of the unchanged stack was served on exactly one page
C38_PaginationCoversStack ==
    \A r \in Reqs :
        EmptyPage(r) =>
            \A row \in stack :
                Cardinality({p \in Pages : row.movie \in ServedIds("A", p)}) = 1

\* C39: a room creation answered with an error leaves no room row, no
\* membership row and no stack row behind; one answered 201 leaves the room
\* waiting with the creator as its only, active member
C39_CreateAllOrNothing ==
    \A r \in Reqs :
        (req[r].kind = "create" /\ req[r].pc = "done") =>
            IF req[r].status = 201
            THEN /\ room.exists
                 /\ room.status = "waiting"
                 /\ MemberRows = {req[r].user}
                 /\ ActiveRows = {req[r].user}
            ELSE /\ ~room.exists
                 /\ MemberRows = {}
                 /\ stack = {}

\* C40: a socket whose join message was answered by subscribing it carried a
\* valid token of a user with a membership row in the room named; a join
\* message without token or roomId or with an invalid token is answered with
\* an error event and leaves the socket disconnected and without subscription
C40_OnlyMembersSubscribe ==
    \A s \in Sockets :
        /\ sockets[s].event = "joined" =>
                /\ TokenValid(sockets[s].token)
                /\ sockets[s].member
        /\ (/\ sockets[s].event # "none"
            /\ \/ sockets[s].token = "none"
               \/ sockets[s].roomId = 0
               \/ ~TokenValid(sockets[s].token)) =>
                /\ sockets[s].event = "error"
                /\ ~sockets[s].open
                /\ sockets[s].subs = {}
====
